---- MODULE Spec2Model ----
(***************************************************************************)
(* Model of the Lumos scan screen (src/src/ui/app.py) and its project      *)
(* store (src/src/projects/manager.py): the page-by-page OCR and           *)
(* translation runs, the pause protocol and the persisted artifacts.       *)
(*                                                                         *)
(* Every run is an asyncio coroutine.  A step of the model is the code a   *)
(* coroutine executes between two points where it yields to the event      *)
(* loop (run_in_executor, backend.translate, asyncio.sleep, a blocked      *)
(* Event.wait).  Button handlers are steps too, guarded by the enabled /   *)
(* visible state of the button that triggers them.                         *)
(***************************************************************************)
EXTENDS Integers, Sequences, FiniteSets, TLC

\* Bounds of the model
MaxPages  == 2     \* the source PDF has 1..MaxPages pages
MaxClicks == 3     \* user actions: button clicks (start, pause, resume) and
                   \* openings of the project after the process ended
MaxLen    == 3     \* characters in a text a translation backend hands back
MaxText   == 7     \* characters in a text given to _strip_preamble
MaxHead   == 2     \* a text given to _strip_line_number_prefixes: up to MaxHead
MaxNumbered == 7   \* lines of any kind, then up to MaxNumbered numbered lines
MaxPlain  == 3     \* and up to MaxPlain lines without a number
MaxEvents == 3     \* lines in the output of the opencode child

\* Program constants
MaxAttempts    == 3   \* for attempt in range(3)
LastRetry      == 2   \* if attempt < 2: sleep and retry

RunIds == 1..MaxClicks

\* ProjectStatus
PENDING            == "pending"
OCR_IN_PROGRESS    == "ocr_in_progress"
OCR_PAUSED         == "ocr_paused"
OCR_DONE           == "ocr_done"
TRANSLATING        == "translating"
TRANSLATION_PAUSED == "translation_paused"
DONE               == "done"
ERROR              == "error"

can_pause(s)  == s \in {OCR_IN_PROGRESS, TRANSLATING}
can_resume(s) == s \in {OCR_PAUSED, TRANSLATION_PAUSED}
can_start(s)  == s \in {PENDING, OCR_DONE}

(***************************************************************************)
(* Texts are sequences of tokens <<kind, n>>.  "nlnl" is the blank-line    *)
(* separator "\n\n", "mark" n is the line "--- Page n ---", the other      *)
(* kinds are opaque page contents.                                         *)
(***************************************************************************)
NLNL      == <<"nlnl", 0>>
Marker(n) == <<"mark", n>>
EmptyText == <<>>
NoFile    == << <<"nofile", 0>> >>     \* the path does not exist

\* what Tesseract recognises on page index i
OcrText(i) == << <<"ocr", i>> >>
\* f"[PAGE {i + 1} OCR FAILED]\n"
OcrFailedText(i) == << <<"ocr_failed", i + 1>> >>
\* the provider's translation of a page text
TranslationOf(text) == [k \in 1..Len(text) |-> <<"tr_" \o text[k][1], text[k][2]>>]
\* f"[PAGE {i} TRANSLATION FAILED — original text below]\n\n{page_text}", i 1-based
TranslationFailedText(i, page_text) == << <<"tr_failed", i>>, NLNL >> \o page_text

RECURSIVE JoinWith(_, _)
\* sep.join(parts)
JoinWith(sep, parts) ==
    IF Len(parts) = 0 THEN EmptyText
    ELSE IF Len(parts) = 1 THEN parts[1]
    ELSE parts[1] \o sep \o JoinWith(sep, Tail(parts))

\* OCREngine._join_pages
_join_pages(pages) ==
    IF Len(pages) = 0 THEN EmptyText
    ELSE IF Len(pages) = 1 THEN pages[1]
    ELSE JoinWith(<<NLNL>>,
                  [k \in 1..Len(pages) |-> <<Marker(k), NLNL>> \o pages[k]])

\* "\n\n".join(translated_parts)
JoinTranslated(parts) == JoinWith(<<NLNL>>, parts)

RECURSIVE SplitFrom(_, _, _)
\* re.split(r"\n\n(?=--- Page \d+ ---)", text): cut at every blank line
\* that is directly followed by a page marker; the blank line is dropped
SplitFrom(text, k, cur) ==
    IF k > Len(text) THEN <<cur>>
    ELSE IF text[k] = NLNL /\ k < Len(text) /\ text[k + 1][1] = "mark"
         THEN <<cur>> \o SplitFrom(text, k + 1, EmptyText)
         ELSE SplitFrom(text, k + 1, Append(cur, text[k]))

SplitOnPageMarker(text) == SplitFrom(text, 1, EmptyText)

\* Texts of a backend, character by character
Chars == {"a", " ", "\n"}
Whitespace == {" ", "\n"}
Texts == UNION {[1..k -> Chars] : k \in 0..MaxLen}

RECURSIVE lstrip(_)
lstrip(t) == IF t # <<>> /\ Head(t) \in Whitespace THEN lstrip(Tail(t)) ELSE t

RECURSIVE rstrip(_)
rstrip(t) ==
    IF t # <<>> /\ t[Len(t)] \in Whitespace THEN rstrip(SubSeq(t, 1, Len(t) - 1)) ELSE t

\* str.strip
strip(t) == rstrip(lstrip(t))

\* no call is being looked at
NoCall ==
    [backend |-> "none", reply |-> [kind |-> "none", text |-> <<>>],
     phase |-> "none", result |-> <<>>, error |-> "none",
     child |-> "none", tmp |-> "none"]

\* no cleanup stage is being looked at
NoCleanup == [fn |-> "none", input |-> <<>>, phase |-> "none", output |-> <<>>]
\* no method call on the output directory yet; again: the call repeats the
\* call before it, argument by argument
NoOp == [fn |-> "none", doc |-> 0, file |-> <<"none", 0>>, text |-> <<>>,
         result |-> <<>>, again |-> FALSE, n |-> 0]

VARIABLES
    pdfPages,     \* number of pages convert_from_path yields for the source PDF
    ocrOracle,    \* per page: what _extract_text_from_image does on it
    proj,         \* the in-memory Project object of the screen
    meta,         \* project.json
    pagesDir,     \* pages/page_NNNN.txt, by page index
    ocrFile,      \* ocr.txt
    trFile,       \* translation.txt
    app,          \* OCRApp fields: signals, _ocr_result, button states
    runs,         \* the run coroutines
    clicks,       \* user actions handled so far
    trPagesDir,   \* translation_pages/page_NNNN.txt, by page index
    trDone,       \* history: page indices whose translation was checkpointed
    call,         \* one call of a backend's translate(), seen from inside
    cleanup,      \* one call of a text-cleanup stage of the opencode backend
    fs,           \* the output directory: contents by (folder name, file)
    docs,         \* the Project objects of two documents
    op            \* the last Project / ProjectManager method call on fs

screenVars == <<clicks, trPagesDir, pdfPages, ocrOracle, proj, meta, pagesDir,
                ocrFile, trFile, app, runs, trDone>>
storeVars == <<fs, docs, op>>
vars == <<screenVars, call, cleanup, storeVars>>

PageIdx == 0..(pdfPages - 1)
\* the scan screen, the provider call and the cleanup stages are followed
\* without the output directory of several documents
StoreUnused == fs = <<>> /\ docs = <<>> /\ op = NoOp

IdleRun ==
    [pc |-> "idle", stage |-> "none", translate |-> FALSE, resume |-> FALSE,
     start_page |-> 0, i |-> 0, total |-> 0,
     pages_text |-> <<>>, translated_parts |-> <<>>,
     attempt |-> 0, waits |-> <<>>, outs |-> <<>>,
     pause_seen |-> FALSE, resume_floor |-> -1, outcome |-> "none"]

\* Project() defaults
NewProject ==
    [status |-> PENDING,
     ocr_total_pages |-> 0, ocr_completed_pages |-> 0,
     translation_total_pages |-> 0, translation_completed_pages |-> 0,
     error_message |-> FALSE]

\* project.json does not exist
NoProjectJson == [NewProject EXCEPT !.status = "absent"]

\* OCRApp.__init__ and _build_ui, for a project with nothing stored
NewApp ==
    [pause_event |-> TRUE, cancel_requested |-> FALSE,
     has_ocr_result |-> FALSE, ocr_result_pages |-> <<>>,
     btn_ocr_disabled |-> FALSE, btn_ocr_translate_disabled |-> FALSE,
     pause_visible |-> FALSE, dialog |-> "none", screen |-> "open"]

\* no process: there is no screen and nothing to click
ClosedApp ==
    [NewApp EXCEPT !.btn_ocr_disabled = TRUE, !.btn_ocr_translate_disabled = TRUE,
                   !.screen = "closed"]

(***************************************************************************)
(* A world is the part of the state one step reads and writes; the         *)
(* operators below are the methods the runs call, as world transformers.   *)
(***************************************************************************)
World ==
    [proj |-> proj, meta |-> meta, pagesDir |-> pagesDir, ocrFile |-> ocrFile,
     trFile |-> trFile, trPagesDir |-> trPagesDir, app |-> app, runs |-> runs,
     trDone |-> trDone]

\* Project.save: folder.mkdir(parents=True, exist_ok=True), then write_text
save(W) == [W EXCEPT !.meta = W.proj]

\* the project folder exists: it holds project.json or some artifact
FolderExists(W) ==
    \/ W.meta # NoProjectJson
    \/ W.ocrFile # NoFile
    \/ W.trFile # NoFile
    \/ \E k \in 0..(MaxPages - 1) : W.pagesDir[k] # NoFile \/ W.trPagesDir[k] # NoFile

\* OCRApp._set_project_status
_set_project_status(W, s) == save([W EXCEPT !.proj.status = s])

\* OCRApp._set_processing
_set_processing(W, active, show_pause) ==
    [W EXCEPT !.app.btn_ocr_disabled = active,
              !.app.btn_ocr_translate_disabled = active,
              !.app.pause_visible = active /\ show_pause]

\* OCRApp._refresh_action_buttons
_refresh_action_buttons(W) ==
    LET status == W.proj.status
        can_ocr == status \in {PENDING, OCR_PAUSED}
        can_translate == status \in {OCR_DONE, TRANSLATION_PAUSED}
    IN  IF status = DONE
        THEN [W EXCEPT !.app.btn_ocr_disabled = TRUE,
                       !.app.btn_ocr_translate_disabled = TRUE]
        ELSE [W EXCEPT !.app.btn_ocr_disabled = ~(can_ocr \/ status = PENDING),
                       !.app.btn_ocr_translate_disabled =
                           ~(can_translate \/ status \in {PENDING, OCR_DONE})]

\* asyncio.Event.set: the coroutines blocked in wait() become runnable
PauseEventSet(W) ==
    [W EXCEPT !.app.pause_event = TRUE,
              !.runs = [q \in RunIds |->
                           IF W.runs[q].pc = "wait"
                           THEN [W.runs[q] EXCEPT !.pc = "woken"]
                           ELSE W.runs[q]]]

\* Project.load_ocr_pages: the page files that exist, sorted by name
RECURSIVE LoadFrom(_, _, _)
LoadFrom(dir, k, n) ==
    IF k >= n THEN <<>>
    ELSE (IF dir[k] = NoFile THEN <<>> ELSE <<dir[k]>>) \o LoadFrom(dir, k + 1, n)

\* a listing that is not sorted by page index
load_ocr_pages_unsorted(W) ==
    LET sorted == LoadFrom(W.pagesDir, 0, MaxPages)
    IN  [k \in 1..Len(sorted) |-> sorted[Len(sorted) + 1 - k]]

load_ocr_pages(W) == LoadFrom(W.pagesDir, 0, MaxPages)

\* Project.save_translation_page
save_translation_page(W, page_index, text) == [W EXCEPT !.trPagesDir[page_index] = text]

\* Project.load_translation_pages
load_translation_pages(W) == LoadFrom(W.trPagesDir, 0, MaxPages)

RECURSIVE SplitMarkerLines(_, _, _)
\* re.split(r"--- Page \d+ ---\n\n", text): cut out every page marker line
\* together with the blank line after it
SplitMarkerLines(text, k, cur) ==
    IF k > Len(text) THEN <<cur>>
    ELSE IF text[k][1] = "mark" /\ k < Len(text) /\ text[k + 1] = NLNL
         THEN <<cur>> \o SplitMarkerLines(text, k + 2, EmptyText)
         ELSE SplitMarkerLines(text, k + 1, Append(cur, text[k]))

\* p.strip() is falsy: nothing but whitespace
IsBlank(text) == \A k \in 1..Len(text) : text[k] = NLNL

\* [p for p in parts if p.strip()]
NonBlank(parts) == SelectSeq(parts, LAMBDA p : ~IsBlank(p))

\* OCRApp._restore_state
_restore_state(W) ==
    LET ocr_text == W.ocrFile
        truthy == ocr_text # NoFile /\ ocr_text # EmptyText
        stored == load_ocr_pages(W)
        pages == IF stored # <<>> THEN stored
                 ELSE NonBlank(SplitMarkerLines(ocr_text, 1, EmptyText))
    IN  _refresh_action_buttons(
            IF truthy
            THEN [W EXCEPT !.app.has_ocr_result = TRUE, !.app.ocr_result_pages = pages]
            ELSE W)

\* the process is gone, and its coroutines and the Project object with it:
\* what is left is what is stored
Close(W) ==
    [W EXCEPT !.proj = W.meta,
              !.app = ClosedApp,
              !.runs = [q \in RunIds |-> IdleRun]]

\* the project is opened from the list: Project.load, then OCRApp(project)
Reopen(W) == _restore_state([W EXCEPT !.proj = W.meta, !.app = NewApp])

\* the finally block of _run_ocr / _run_translation, then the coroutine ends
Return(W, r, outcome) ==
    LET F == _refresh_action_buttons(_set_processing(W, FALSE, FALSE))
    IN  [F EXCEPT !.runs[r] =
            [IdleRun EXCEPT !.pc = "done", !.stage = W.runs[r].stage,
                            !.resume = W.runs[r].resume,
                            !.translate = W.runs[r].translate,
                            !.start_page = W.runs[r].start_page,
                            !.pause_seen = W.runs[r].pause_seen,
                            !.resume_floor = W.runs[r].resume_floor,
                            !.outcome = outcome]]

\* OCRApp._show_error: the modal error dialog and what it reports
_show_error(W, msg) == [W EXCEPT !.app.dialog = msg]

\* an exception handler that does not persist the error
RaiseUnsaved(W, r) ==
    Return(_show_error([W EXCEPT !.proj.status = ERROR, !.proj.error_message = TRUE],
                       "exception"),
           r, "error")

\* except Exception: status = ERROR, error_message, save, _show_error, then finally
Raise(W, r) ==
    Return(_show_error(save([W EXCEPT !.proj.status = ERROR,
                                      !.proj.error_message = TRUE]),
                       "exception"),
           r, "error")

\* The source PDF either has no recognisable text at all (every page gives
\* "") or each of its pages gives a text or makes Tesseract raise, which is
\* fixed when the page is first extracted.
InitScreen ==
    /\ pdfPages \in 1..MaxPages
    /\ ocrOracle \in {[i \in 0..(MaxPages - 1) |-> "unset"],
                      [i \in 0..(MaxPages - 1) |-> "blank"]}
    /\ proj = NewProject
    /\ meta = NewProject
    /\ pagesDir = [i \in 0..(MaxPages - 1) |-> NoFile]
    /\ ocrFile = NoFile
    /\ trFile = NoFile
    /\ trPagesDir = [i \in 0..(MaxPages - 1) |-> NoFile]
    /\ app = NewApp
    /\ runs = [r \in RunIds |-> IdleRun]
    /\ trDone = {}
    /\ clicks = 0

Init == InitScreen /\ call = NoCall /\ cleanup = NoCleanup /\ StoreUnused

(***************************************************************************)
(* _run_ocr                                                                *)
(***************************************************************************)
\* after the for loop of _run_ocr: return when paused, else finish the stage
OcrAfterLoop(W, r) ==
    IF W.app.cancel_requested
    THEN Return(W, r, "paused")
    ELSE LET run == W.runs[r]
             full_text == _join_pages(run.pages_text)
             W1 == [W EXCEPT !.app.has_ocr_result = TRUE,
                             !.app.ocr_result_pages = run.pages_text,
                             !.ocrFile = full_text,
                             !.proj.ocr_completed_pages = run.total]
             W2 == _set_project_status(W1, OCR_DONE)
         IN  IF run.translate
             THEN [W2 EXCEPT !.runs[r].pc = "chain_sleep"]
             ELSE Return(W2, r, "completed")

\* after `await self._pause_event.wait()` returned: break or start the page
OcrPastWait(W, r) ==
    IF W.app.cancel_requested
    THEN OcrAfterLoop(W, r)
    ELSE [W EXCEPT !.runs[r].pc = "ocr"]

\* top of the loop body for page index runs[r].i (pages < start_page skipped)
OcrLoopHead(W, r) ==
    IF W.runs[r].i >= W.runs[r].total
    THEN OcrAfterLoop(W, r)
    ELSE IF ~W.app.pause_event
         THEN [W EXCEPT !.runs[r].pc = "wait"]
         ELSE OcrPastWait(W, r)

\* ground truth for "checkpointed": one past the highest page index done
Floor(S) == IF S = {} THEN 0 ELSE 1 + (CHOOSE m \in S : \A k \in S : k <= m)

\* every other coroutine is finished or blocked at a page boundary
AtBoundary(r) == \A q \in RunIds \ {r} : runs[q].pc \in {"idle", "done", "wait"}

\* the pages a run starts from
ExistingPages(W, resume) == IF resume THEN load_ocr_pages(W) ELSE <<>>

\* _run_ocr up to `await loop.run_in_executor(None, engine._convert_pdf_to_images, ...)`
StartOcr(W, r, translate, resume) ==
    LET W0 == PauseEventSet([W EXCEPT !.app.cancel_requested = FALSE])
        existing_pages == ExistingPages(W0, resume)
        W1 == _set_project_status(W0, OCR_IN_PROGRESS)
        W2 == save(_set_processing(W1, TRUE, TRUE))
    IN  [W2 EXCEPT !.runs[r] =
            [IdleRun EXCEPT !.pc = "convert", !.stage = "ocr",
                            !.translate = translate, !.resume = resume,
                            !.start_page = Len(existing_pages),
                            !.pages_text = existing_pages,
                            !.resume_floor =
                                IF resume /\ AtBoundary(r)
                                THEN Floor({k \in 0..(MaxPages - 1) : W.pagesDir[k] # NoFile})
                                ELSE -1]]

\* a total that counts only the pages still to be extracted
PageCountRemaining(W, r) == pdfPages - W.runs[r].start_page

\* total = len(images): every page of the PDF is converted on every run
PageCount(W, r) == pdfPages

\* the conversion returned the page images
ConvertReturnW(W, r) ==
    LET total == PageCount(W, r)
        W1 == save([W EXCEPT !.proj.ocr_total_pages = total])
        W2 == [W1 EXCEPT !.runs[r].total = total,
                         !.runs[r].i = W.runs[r].start_page]
    IN  OcrLoopHead(W2, r)

\* a failed page that leaves an empty text instead of the marker
OcrOutcomeTextBlank(i, outcome) == IF outcome = "ok" THEN OcrText(i) ELSE EmptyText

\* what _extract_text_from_image can do on a page: return a text, return ""
\* (nothing recognised), raise
OcrOutcomes == {"ok", "blank", "fail"}

\* the text appended for page i: the recognised text, or the failure marker
OcrOutcomeText(i, outcome) ==
    CASE outcome = "ok" -> OcrText(i)
      [] outcome = "blank" -> EmptyText
      [] OTHER -> OcrFailedText(i)

\* Project.save_ocr_page
save_ocr_page(W, page_index, text) == [W EXCEPT !.pagesDir[page_index] = text]

\* a checkpoint that drops the page of a run a pause was requested for
CheckpointPageUnlessPaused(W, r, text) ==
    IF W.app.cancel_requested THEN W ELSE save_ocr_page(W, W.runs[r].i, text)

\* first durable write of the extraction checkpoint: the page file
CheckpointPage(W, r, text) == save_ocr_page(W, W.runs[r].i, text)

\* a counter that runs one ahead of the pages collected
CheckpointCounterAhead(W, r) ==
    save([W EXCEPT !.proj.ocr_completed_pages = Len(W.runs[r].pages_text) + 2])

\* second durable write: ocr_completed_pages = len(pages_text), touch, save
CheckpointCounter(W, r) ==
    save([W EXCEPT !.proj.ocr_completed_pages = Len(W.runs[r].pages_text) + 1])

\* the executor returned (or raised) for page i: checkpoint, next iteration
OcrPageReturnW(W, r, outcome) ==
    LET run == W.runs[r]
        text == OcrOutcomeText(run.i, outcome)
        W2 == CheckpointCounter(CheckpointPage(W, r, text), r)
        W3 == [W2 EXCEPT !.runs[r].pages_text = Append(run.pages_text, text),
                         !.runs[r].i = run.i + 1]
    IN  OcrLoopHead(W3, r)

(***************************************************************************)
(* _run_translation                                                        *)
(***************************************************************************)
\* a backoff that does not grow
BackoffWaitFixed(attempt) == 1

\* 2 ** attempt
BackoffWait(attempt) == 2 ^ attempt

\* after the for loop of _run_translation
TrAfterLoop(W, r) ==
    IF W.app.cancel_requested
    THEN Return(W, r, "paused")
    ELSE LET W1 == [W EXCEPT !.proj.translation_completed_pages = W.runs[r].total]
         IN  Return(_set_project_status(W1, DONE), r, "completed")

\* after the pause point: break or issue the first provider call of the page
TrPastWait(W, r) ==
    IF W.app.cancel_requested
    THEN TrAfterLoop(W, r)
    ELSE [W EXCEPT !.runs[r].pc = "translate", !.runs[r].attempt = 0,
                   !.runs[r].waits = <<>>, !.runs[r].outs = <<>>]

TrLoopHead(W, r) ==
    IF W.runs[r].i >= W.runs[r].total
    THEN TrAfterLoop(W, r)
    ELSE IF ~W.app.pause_event
         THEN [W EXCEPT !.runs[r].pc = "wait"]
         ELSE TrPastWait(W, r)

\* Project.load_translation_result, and the truth test `if existing:`
HasExistingTranslation(W) == W.trFile # NoFile /\ W.trFile # EmptyText

\* the already-translated parts a resumed run recovers from translation.txt
RecoveredParts(W, resume) ==
    IF resume /\ HasExistingTranslation(W)
    THEN SplitOnPageMarker(W.trFile)
    ELSE <<>>

\* _run_translation up to the first provider call (requires _ocr_result)
StartTranslation(W, r, resume, backend_ok) ==
    LET W0 == PauseEventSet([W EXCEPT !.app.cancel_requested = FALSE])
        translated_parts == RecoveredParts(W0, resume)
        W1 == _set_project_status(W0, TRANSLATING)
        W2 == save(_set_processing(W1, TRUE, TRUE))
        pages == W.app.ocr_result_pages
        W3 == [W2 EXCEPT !.runs[r] =
                  [IdleRun EXCEPT !.pc = "translate", !.stage = "tr",
                                  !.translate = W.runs[r].translate,
                                  !.resume = resume,
                                  !.start_page = Len(translated_parts),
                                  !.i = Len(translated_parts),
                                  !.total = Len(pages),
                                  !.pages_text = pages,
                                  !.translated_parts = translated_parts,
                                  !.pause_seen = W.runs[r].pause_seen,
                                  !.resume_floor =
                                      IF resume /\ AtBoundary(r)
                                      THEN Floor(W.trDone) ELSE -1]]
    IN  IF ~backend_ok
        THEN Raise(W3, r)
        ELSE TrLoopHead(save([W3 EXCEPT !.proj.translation_total_pages = Len(pages)]), r)

\* Project.save_translation_result
save_translation_result(W, text) == [W EXCEPT !.trFile = text]

\* a sentinel that drops the original page text
PagePartMarkerOnly(i, page_text, page_translation) ==
    IF page_translation # EmptyText
    THEN page_translation
    ELSE << <<"tr_failed", i + 1>> >>

\* what is appended for the page: the translation if truthy, else the sentinel
PagePart(i, page_text, page_translation) ==
    IF page_translation # EmptyText
    THEN page_translation
    ELSE TranslationFailedText(i + 1, page_text)

\* translated_parts once the part of the current page is appended
PartsWith(W, r, page_translation) ==
    Append(W.runs[r].translated_parts,
           PagePart(W.runs[r].i, W.runs[r].pages_text[W.runs[r].i + 1],
                    page_translation))

\* first durable write of the translation checkpoint: translation.txt
CheckpointResult(W, r, page_translation) ==
    save_translation_result(W, JoinTranslated(PartsWith(W, r, page_translation)))

\* a checkpoint that is followed by the delay after the last page as well
TrCheckpointAlwaysDelays(W, r, page_translation) ==
    LET parts == PartsWith(W, r, page_translation)
        W1 == CheckpointResult(W, r, page_translation)
        W2 == save([W1 EXCEPT !.proj.translation_completed_pages = Len(parts)])
        W3 == [W2 EXCEPT !.runs[r].translated_parts = parts,
                         !.trDone = W.trDone \cup {W.runs[r].i}]
    IN  IF ~FolderExists(W)
        THEN Raise(W, r)
        ELSE [W3 EXCEPT !.runs[r].pc = "delay"]

\* the retry loop is over for page i: checkpoint, inter-page delay or loop
\* end; translation_path.write_text makes no folder and raises without one
TrCheckpoint(W, r, page_translation) ==
    LET run == W.runs[r]
        parts == PartsWith(W, r, page_translation)
        W1 == CheckpointResult(W, r, page_translation)
        W2 == save([W1 EXCEPT !.proj.translation_completed_pages = Len(parts)])
        W3 == [W2 EXCEPT !.runs[r].translated_parts = parts,
                         !.trDone = W.trDone \cup {run.i}]
    IN  IF ~FolderExists(W)
        THEN Raise(W, r)
        ELSE IF run.i + 1 < run.total
        THEN [W3 EXCEPT !.runs[r].pc = "delay"]
        ELSE TrLoopHead([W3 EXCEPT !.runs[r].i = run.i + 1], r)

\* a retry loop that starts over after its last round
NextAttemptStartsOver(W, r) ==
    IF W.runs[r].attempt + 1 < MaxAttempts
    THEN [W EXCEPT !.runs[r].pc = "translate",
                   !.runs[r].attempt = W.runs[r].attempt + 1]
    ELSE [W EXCEPT !.runs[r].pc = "translate", !.runs[r].attempt = 0,
                   !.runs[r].outs = <<>>, !.runs[r].waits = <<>>]

\* the next round of `for attempt in range(3)`, or the end of the retry loop
NextAttempt(W, r) ==
    IF W.runs[r].attempt + 1 < MaxAttempts
    THEN [W EXCEPT !.runs[r].pc = "translate",
                   !.runs[r].attempt = W.runs[r].attempt + 1]
    ELSE TrCheckpoint(W, r, EmptyText)

\* backend.translate returned a text ("ok"), returned "" ("empty") or raised
ProviderReturnW(W, r, out) ==
    LET run == W.runs[r]
        W1 == [W EXCEPT !.runs[r].outs = Append(run.outs, out)]
    IN  IF out = "ok"
        THEN TrCheckpoint(W1, r, TranslationOf(run.pages_text[run.i + 1]))
        ELSE IF out = "empty"
        THEN TrCheckpoint(W1, r, EmptyText)
        ELSE IF run.attempt < LastRetry
        THEN [W1 EXCEPT !.runs[r].pc = "backoff",
                        !.runs[r].waits = Append(run.waits, BackoffWait(run.attempt))]
        ELSE NextAttempt(W1, r)

\* a pause that clears the event and leaves the stop request unset
_pauseEventOnly(W) ==
    LET W0 == [W EXCEPT !.app.pause_event = FALSE]
        W1 == IF W0.proj.status = OCR_IN_PROGRESS
              THEN _set_project_status(W0, OCR_PAUSED)
              ELSE IF W0.proj.status = TRANSLATING
              THEN _set_project_status(W0, TRANSLATION_PAUSED)
              ELSE W0
    IN  _refresh_action_buttons(_set_processing(W1, FALSE, FALSE))

\* OCRApp._pause
_pause(W) ==
    LET W0 == [W EXCEPT !.app.pause_event = FALSE, !.app.cancel_requested = TRUE,
                        !.runs = [q \in RunIds |->
                                     IF W.runs[q].pc \in {"idle", "done"}
                                     THEN W.runs[q]
                                     ELSE [W.runs[q] EXCEPT !.pause_seen = TRUE]]]
        W1 == IF W0.proj.status = OCR_IN_PROGRESS
              THEN _set_project_status(W0, OCR_PAUSED)
              ELSE IF W0.proj.status = TRANSLATING
              THEN _set_project_status(W0, TRANSLATION_PAUSED)
              ELSE W0
    IN  _refresh_action_buttons(_set_processing(W1, FALSE, FALSE))

(***************************************************************************)
(* Steps                                                                   *)
(***************************************************************************)
Apply(W) ==
    /\ UNCHANGED <<call, cleanup, storeVars>>
    /\ proj' = W.proj
    /\ meta' = W.meta
    /\ pagesDir' = W.pagesDir
    /\ ocrFile' = W.ocrFile
    /\ trFile' = W.trFile
    /\ app' = W.app
    /\ trPagesDir' = W.trPagesDir
    /\ runs' = W.runs
    /\ trDone' = W.trDone

Free(r) == runs[r].pc = "idle"
\* the coroutines are numbered in the order of the clicks that start them
FreeSlot(r) == Free(r) /\ \A q \in RunIds : q < r => ~Free(q)

\* click on "Extract Text (OCR)" / "Resume OCR"
_on_run_ocr ==
    /\ clicks < MaxClicks
    /\ clicks' = clicks + 1
    /\ app.screen = "open"
    /\ ~app.btn_ocr_disabled
    /\ \E r \in RunIds :
         /\ FreeSlot(r)
         /\ Apply(StartOcr(World, r, FALSE, proj.status = OCR_PAUSED))
    /\ UNCHANGED <<pdfPages, ocrOracle>>

\* a precondition test placed after the status change
RejectTranslationLate(W) ==
    _show_error(_set_project_status(W, TRANSLATING), "no_ocr_result")

\* _run_translation without an OCR result: the error dialog, then return
RejectTranslation(W) == _show_error(W, "no_ocr_result")

\* click on "Extract + Translate" / "Translate OCR Result" / "Resume Translation"
_on_run_ocr_translate ==
    /\ clicks < MaxClicks
    /\ clicks' = clicks + 1
    /\ app.screen = "open"
    /\ ~app.btn_ocr_translate_disabled
    /\ IF proj.status \in {TRANSLATION_PAUSED, OCR_DONE} /\ ~app.has_ocr_result
       THEN Apply(RejectTranslation(World))
       ELSE \E r \in RunIds :
              /\ FreeSlot(r)
              /\ IF proj.status \in {TRANSLATION_PAUSED, OCR_DONE}
                 THEN \E backend_ok \in BOOLEAN :
                        Apply(StartTranslation([World EXCEPT !.runs[r] = IdleRun], r,
                                               proj.status = TRANSLATION_PAUSED,
                                               backend_ok))
                 ELSE Apply(StartOcr(World, r, TRUE, FALSE))
    /\ UNCHANGED <<pdfPages, ocrOracle>>

\* click on the pause button
_on_pause_resume ==
    /\ clicks < MaxClicks
    /\ clicks' = clicks + 1
    /\ app.screen = "open"
    /\ app.pause_visible
    /\ can_pause(proj.status)
    /\ Apply(_pause(World))
    /\ UNCHANGED <<pdfPages, ocrOracle>>

\* page i does what it did before; only a PDF without text gives ""
OracleAllows(i, outcome) ==
    ocrOracle[i] \in (IF outcome = "blank" THEN {"blank"} ELSE {"unset", outcome})

\* engine._convert_pdf_to_images returned
ConvertReturn(r) ==
    /\ UNCHANGED clicks
    /\ runs[r].pc = "convert"
    /\ Apply(ConvertReturnW(World, r))
    /\ UNCHANGED <<pdfPages, ocrOracle>>

\* engine._convert_pdf_to_images raised
ConvertRaise(r) ==
    /\ UNCHANGED clicks
    /\ runs[r].pc = "convert"
    /\ Apply(Raise(World, r))
    /\ UNCHANGED <<pdfPages, ocrOracle>>

\* a coroutine whose Event.wait() was released runs again
Wake(r) ==
    /\ UNCHANGED clicks
    /\ runs[r].pc = "woken"
    /\ Apply(IF runs[r].stage = "ocr" THEN OcrPastWait(World, r) ELSE TrPastWait(World, r))
    /\ UNCHANGED <<pdfPages, ocrOracle>>

\* engine._extract_text_from_image returned or raised; per page it always
\* does the same (deterministic OCR)
OcrPageReturn(r) ==
    /\ UNCHANGED clicks
    /\ runs[r].pc = "ocr"
    /\ \E outcome \in OcrOutcomes :
         /\ OracleAllows(runs[r].i, outcome)
         /\ ocrOracle' = [ocrOracle EXCEPT ![runs[r].i] = outcome]
         /\ Apply(OcrPageReturnW(World, r, outcome))
    /\ UNCHANGED pdfPages

\* the page was extracted, then save_ocr_page or the Project.save after it
\* raised: the outer except of _run_ocr
OcrWriteRaise(r) ==
    /\ UNCHANGED clicks
    /\ runs[r].pc = "ocr"
    /\ \E outcome \in OcrOutcomes, failed \in {"page", "meta"} :
         /\ OracleAllows(runs[r].i, outcome)
         /\ ocrOracle' = [ocrOracle EXCEPT ![runs[r].i] = outcome]
         /\ LET text == OcrOutcomeText(runs[r].i, outcome)
                W1 == save_ocr_page(World, runs[r].i, text)
                W2 == [W1 EXCEPT !.proj.ocr_completed_pages =
                                     Len(runs[r].pages_text) + 1]
            IN  Apply(Raise(IF failed = "page" THEN World ELSE W2, r))
    /\ UNCHANGED pdfPages

\* asyncio.sleep(0.3) is over: await self._run_translation(resume=False)
ChainSleepDone(r) ==
    /\ UNCHANGED clicks
    /\ runs[r].pc = "chain_sleep"
    /\ IF app.has_ocr_result
       THEN \E backend_ok \in BOOLEAN :
              Apply(StartTranslation(World, r, FALSE, backend_ok))
       ELSE Apply(Return(RejectTranslation(World), r, "completed"))
    /\ UNCHANGED <<pdfPages, ocrOracle>>

\* what backend.translate can do with a page text: return a non-empty
\* translation ("ok", not for a page without text), return "" or raise
ProviderOutcomes(page_text) ==
    IF TranslationOf(page_text) = EmptyText
    THEN {"empty", "raise"}
    ELSE {"ok", "empty", "raise"}

\* backend.translate finished
ProviderReturn(r) ==
    /\ UNCHANGED clicks
    /\ runs[r].pc = "translate"
    /\ \E out \in ProviderOutcomes(runs[r].pages_text[runs[r].i + 1]) :
         Apply(ProviderReturnW(World, r, out))
    /\ UNCHANGED <<pdfPages, ocrOracle>>

\* the retry loop ended for the page, then save_translation_result or the
\* Project.save after it raised: the outer except of _run_translation
TrWriteRaise(r) ==
    /\ UNCHANGED clicks
    /\ runs[r].pc = "translate"
    /\ \E page_translation \in {TranslationOf(runs[r].pages_text[runs[r].i + 1]), EmptyText},
          failed \in {"result", "meta"} :
         LET parts == Append(runs[r].translated_parts,
                             PagePart(runs[r].i, runs[r].pages_text[runs[r].i + 1],
                                      page_translation))
             W1 == save_translation_result(World, JoinTranslated(parts))
             W2 == [W1 EXCEPT !.proj.translation_completed_pages = Len(parts)]
         IN  Apply(Raise(IF failed = "result" THEN World ELSE W2, r))
    /\ UNCHANGED <<pdfPages, ocrOracle>>

\* asyncio.sleep(wait_time) is over: next attempt
BackoffDone(r) ==
    /\ UNCHANGED clicks
    /\ runs[r].pc = "backoff"
    /\ Apply(NextAttempt(World, r))
    /\ UNCHANGED <<pdfPages, ocrOracle>>

\* asyncio.sleep(1) between pages is over: next iteration
DelayDone(r) ==
    /\ UNCHANGED clicks
    /\ runs[r].pc = "delay"
    /\ Apply(TrLoopHead([World EXCEPT !.runs[r].i = runs[r].i + 1], r))
    /\ UNCHANGED <<pdfPages, ocrOracle>>

\* the process ends (exit, kill, power loss) between two steps
Crash ==
    /\ app.screen = "open"
    /\ Apply(Close(World))
    /\ UNCHANGED <<clicks, pdfPages, ocrOracle>>

\* the process ends inside an extraction checkpoint, after the page file was
\* written and before project.json was
CrashInOcrCheckpoint(r) ==
    /\ runs[r].pc = "ocr"
    /\ \E outcome \in OcrOutcomes :
         /\ OracleAllows(runs[r].i, outcome)
         /\ ocrOracle' = [ocrOracle EXCEPT ![runs[r].i] = outcome]
         /\ Apply(Close(CheckpointPage(World, r, OcrOutcomeText(runs[r].i, outcome))))
    /\ UNCHANGED <<clicks, pdfPages>>

\* the same inside a translation checkpoint: translation.txt was written,
\* project.json was not
CrashInTrCheckpoint(r) ==
    /\ runs[r].pc = "translate"
    /\ \E page_translation \in {TranslationOf(runs[r].pages_text[runs[r].i + 1]), EmptyText} :
         Apply(Close(CheckpointResult(World, r, page_translation)))
    /\ UNCHANGED <<clicks, pdfPages, ocrOracle>>

\* the application is started again and the project opened from the list
Open ==
    /\ clicks < MaxClicks
    /\ clicks' = clicks + 1
    /\ app.screen = "closed"
    /\ Apply(Reopen(World))
    /\ UNCHANGED <<pdfPages, ocrOracle>>

Next ==
    \/ _on_run_ocr
    \/ _on_run_ocr_translate
    \/ _on_pause_resume
    \/ \E r \in RunIds : ConvertReturn(r)
    \/ \E r \in RunIds : ConvertRaise(r)
    \/ \E r \in RunIds : Wake(r)
    \/ \E r \in RunIds : OcrPageReturn(r)
    \/ \E r \in RunIds : OcrWriteRaise(r)
    \/ \E r \in RunIds : ChainSleepDone(r)
    \/ \E r \in RunIds : ProviderReturn(r)
    \/ \E r \in RunIds : TrWriteRaise(r)
    \/ \E r \in RunIds : BackoffDone(r)
    \/ \E r \in RunIds : DelayDone(r)
    \/ Crash
    \/ Open
    \/ \E r \in RunIds : CrashInOcrCheckpoint(r)
    \/ \E r \in RunIds : CrashInTrCheckpoint(r)

Spec == Init /\ [][Next]_vars

(***************************************************************************)
(* Leaving the scan screen and removing the project from the project list  *)
(* (src/src/ui/project_list.py).  The OCRApp that was left is not          *)
(* destroyed: its coroutines go on with the Project object they hold.      *)
(***************************************************************************)
\* click on the back arrow: pause when a stage is in progress, then on_back
\* shows the project list in place of the scan screen
_on_back_click ==
    /\ clicks < MaxClicks
    /\ clicks' = clicks + 1
    /\ app.screen = "open"
    /\ LET W == IF proj.status \in {OCR_IN_PROGRESS, TRANSLATING}
                THEN _pause(World) ELSE World
       IN  Apply([W EXCEPT !.app.screen = "list"])
    /\ UNCHANGED <<pdfPages, ocrOracle>>

\* ProjectManager.delete_project: shutil.rmtree(project.folder)
delete_project(W) ==
    [W EXCEPT !.meta = NoProjectJson,
              !.pagesDir = [i \in 0..(MaxPages - 1) |-> NoFile],
              !.trPagesDir = [i \in 0..(MaxPages - 1) |-> NoFile],
              !.ocrFile = NoFile,
              !.trFile = NoFile]

\* "Delete" confirmed in the project list; the list is built again without
\* the project
do_delete ==
    /\ clicks < MaxClicks
    /\ clicks' = clicks + 1
    /\ app.screen = "list"
    /\ Apply([delete_project(World) EXCEPT !.app.screen = "removed"])
    /\ UNCHANGED <<pdfPages, ocrOracle>>

NextRemoval ==
    \/ _on_run_ocr
    \/ _on_run_ocr_translate
    \/ _on_pause_resume
    \/ _on_back_click
    \/ do_delete
    \/ \E r \in RunIds : ConvertReturn(r)
    \/ \E r \in RunIds : ConvertRaise(r)
    \/ \E r \in RunIds : Wake(r)
    \/ \E r \in RunIds : OcrPageReturn(r)
    \/ \E r \in RunIds : ChainSleepDone(r)
    \/ \E r \in RunIds : ProviderReturn(r)
    \/ \E r \in RunIds : BackoffDone(r)
    \/ \E r \in RunIds : DelayDone(r)

SpecRemoval == Init /\ [][NextRemoval]_vars

(***************************************************************************)
(* The translation backends (src/src/translation).  A call is given what   *)
(* the backend gets back from outside (the HTTP response, the child        *)
(* process) and translate() turns it into a result or an exception.  The   *)
(* run loop above sees a returned non-empty text as "ok", a returned empty *)
(* text as "empty" and an exception as "raise".                            *)
(***************************************************************************)
LmStudioReplies ==
    {[kind |-> k, text |-> <<>>] : k \in {"api_error", "no_content"}}
        \cup {[kind |-> "content", text |-> t] : t \in Texts}

OpenCodeReplies ==
    {[kind |-> k, text |-> <<>>] :
        k \in {"not_installed", "write_error", "spawn_error", "timeout", "exit_nonzero"}}
        \cup {[kind |-> "exit_zero", text |-> t] : t \in Texts}

Returned(c, text) == [c EXCEPT !.phase = "returned", !.result = text]
Raised(c, error) == [c EXCEPT !.phase = "raised", !.error = error]

\* LMStudioBackend.translate
LmStudioTranslateW(c) ==
    IF c.reply.kind = "api_error" THEN Raised(c, "api_error")
    ELSE IF c.reply.kind = "no_content" THEN Raised(c, "empty")
    ELSE Returned(c, strip(c.reply.text))

LmStudioTranslate ==
    /\ call.backend = "lmstudio" /\ call.phase = "called"
    /\ call' = LmStudioTranslateW(call)
    /\ UNCHANGED <<screenVars, cleanup, storeVars>>

\* os.unlink(tmp_path) in the finally block
Unlink(c) == [c EXCEPT !.tmp = "removed"]

\* OpenCodeBackend.translate up to `await asyncio.wait_for(proc.communicate(), ...)`:
\* is_available, the temporary file with the page text, the child process.
\* NamedTemporaryFile(delete=False) creates the file; writing or closing it
\* can raise (text that cannot be encoded, no space), before the try block;
\* create_subprocess_exec can raise, inside it
OpenCodeStartW(c) ==
    IF c.reply.kind = "not_installed" THEN Raised(c, "not_installed")
    ELSE IF c.reply.kind = "write_error"
    THEN Raised([c EXCEPT !.tmp = "exists"], "write_error")
    ELSE IF c.reply.kind = "spawn_error"
    THEN Raised(Unlink([c EXCEPT !.tmp = "exists"]), "spawn_error")
    ELSE [c EXCEPT !.tmp = "exists", !.child = "running", !.phase = "communicate"]

\* communicate() returned in time, the child has exited: finally, the return
\* code, _parse_opencode_json (reply.text is what it makes of stdout), the
\* test for an empty translation
OpenCodeTranslateW(c) ==
    LET c1 == Unlink([c EXCEPT !.child = "exited"])
    IN  IF c.reply.kind = "exit_nonzero" THEN Raised(c1, "exit_nonzero")
        ELSE IF strip(c.reply.text) = <<>> THEN Raised(c1, "empty")
        ELSE Returned(c1, strip(c.reply.text))

\* except asyncio.TimeoutError: proc.kill(), await proc.wait(), raise
\* RuntimeError("... timed out ..."), then finally.  Process.kill() raises
\* ProcessLookupError for a child that has exited, and that leaves the block
OpenCodeTimedOutW(c) ==
    IF c.child = "running"
    THEN Raised(Unlink([c EXCEPT !.child = "killed"]), "timeout")
    ELSE Raised(Unlink(c), "lookup")

OpenCodeStart ==
    /\ call.backend = "opencode" /\ call.phase = "called"
    /\ call' = OpenCodeStartW(call)
    /\ UNCHANGED <<screenVars, cleanup, storeVars>>

\* the child exits and communicate() returns before the timeout
OpenCodeTranslate ==
    /\ call.backend = "opencode" /\ call.phase = "communicate"
    /\ call.reply.kind \in {"exit_zero", "exit_nonzero"}
    /\ call' = OpenCodeTranslateW(call)
    /\ UNCHANGED <<screenVars, cleanup, storeVars>>

\* the timeout of wait_for passes with the child still running: wait_for
\* cancels communicate() and waits for the cancellation, which yields to
\* the event loop before TimeoutError is raised
OpenCodeTimeout ==
    /\ call.backend = "opencode" /\ call.phase = "communicate"
    /\ call.reply.kind = "timeout"
    /\ call' = [call EXCEPT !.phase = "timed_out"]
    /\ UNCHANGED <<screenVars, cleanup, storeVars>>

\* the child exits by itself while the cancellation is under way
ChildExitsLate ==
    /\ call.phase = "timed_out" /\ call.child = "running"
    /\ call' = [call EXCEPT !.child = "exited"]
    /\ UNCHANGED <<screenVars, cleanup, storeVars>>

\* TimeoutError reaches translate
OpenCodeTimedOut ==
    /\ call.phase = "timed_out"
    /\ call' = OpenCodeTimedOutW(call)
    /\ UNCHANGED <<screenVars, cleanup, storeVars>>

NewCall(backend, rp) ==
    [NoCall EXCEPT !.backend = backend, !.reply = rp, !.phase = "called"]

InitProvider ==
    /\ InitScreen
    /\ StoreUnused
    /\ cleanup = NoCleanup
    /\ call \in {NewCall("lmstudio", rp) : rp \in LmStudioReplies}
            \cup {NewCall("opencode", rp) : rp \in OpenCodeReplies}

NextProvider ==
    \/ LmStudioTranslate
    \/ OpenCodeStart
    \/ OpenCodeTranslate
    \/ OpenCodeTimeout
    \/ ChildExitsLate
    \/ OpenCodeTimedOut

SpecProvider == InitProvider /\ [][NextProvider]_vars

(***************************************************************************)
(* The text cleanup of the opencode backend (opencode.py), character by    *)
(* character.  "M" stands for the marker phrase "My approach:", "1" for a  *)
(* digit.                                                                  *)
(***************************************************************************)
\* text.split("\n\n"): cut at every "\n\n", left to right
RECURSIVE SplitBlocks(_, _, _)
SplitBlocks(text, k, cur) ==
    IF k > Len(text) THEN <<cur>>
    ELSE IF text[k] = "\n" /\ k < Len(text) /\ text[k + 1] = "\n"
         THEN <<cur>> \o SplitBlocks(text, k + 2, <<>>)
         ELSE SplitBlocks(text, k + 1, Append(cur, text[k]))

\* a marker test that finds the phrase anywhere in the block
is_preamble_anywhere(stripped) == \E k \in 1..Len(stripped) : stripped[k] = "M"

\* any(stripped.startswith(m) for m in _PREAMBLE_MARKERS)
is_preamble(stripped) == stripped # <<>> /\ stripped[1] = "M"

\* the for loop of _strip_preamble: the index of the first block that is
\* neither blank nor a preamble, 0 when the loop ends without one
RECURSIVE FirstNonPreamble(_, _)
FirstNonPreamble(blocks, i) ==
    IF i > Len(blocks) THEN 0
    ELSE IF strip(blocks[i]) = <<>> THEN FirstNonPreamble(blocks, i + 1)
    ELSE IF ~is_preamble(strip(blocks[i])) THEN i
    ELSE FirstNonPreamble(blocks, i + 1)

_strip_preamble(text) ==
    LET blocks == SplitBlocks(text, 1, <<>>)
        i == FirstNonPreamble(blocks, 1)
    IN  IF i = 0 THEN strip(text)
        ELSE strip(JoinWith(<<"\n", "\n">>, SubSeq(blocks, i, Len(blocks))))

\* text.splitlines()
RECURSIVE SplitLines(_, _, _)
SplitLines(text, k, cur) ==
    IF k > Len(text) THEN (IF cur = <<>> THEN <<>> ELSE <<cur>>)
    ELSE IF text[k] = "\n" THEN <<cur>> \o SplitLines(text, k + 1, <<>>)
    ELSE SplitLines(text, k + 1, Append(cur, text[k]))

\* the first position >= p of text that holds no character of the set
RECURSIVE SkipWhile(_, _, _)
SkipWhile(text, p, set) ==
    IF p <= Len(text) /\ text[p] \in set THEN SkipWhile(text, p + 1, set) ELSE p

Digits == {"1"}
MaxDigits == 6

\* the pattern \s*\d{1,6}:\s+ tried at position p: the position after the
\* match, 0 when there is none
MatchEnd(text, p) ==
    LET q == SkipWhile(text, p, Whitespace)
        c == SkipWhile(text, q, Digits)
        e == SkipWhile(text, c + 1, Whitespace)
    IN  IF /\ c > q /\ c - q <= MaxDigits
           /\ c <= Len(text) /\ text[c] = ":"
           /\ e > c + 1
        THEN e ELSE 0

\* re.match(r"^\s*\d{1,6}:\s+", ln)
LineMatches(ln) == MatchEnd(ln, 1) # 0

\* _LINE_NUMBER_RE.sub("", text) from position p on: with re.MULTILINE the
\* pattern is tried where a line starts, and \s matches "\n" as well
RECURSIVE SubLineNumbers(_, _)
SubLineNumbers(text, p) ==
    IF p > Len(text) THEN <<>>
    ELSE IF (p = 1 \/ text[p - 1] = "\n") /\ MatchEnd(text, p) # 0
         THEN SubLineNumbers(text, MatchEnd(text, p))
         ELSE <<text[p]>> \o SubLineNumbers(text, p + 1)

\* [ln for ln in lines if ln.strip()]
NonEmptyLines(text) == SelectSeq(SplitLines(text, 1, <<>>), LAMBDA ln : strip(ln) # <<>>)

\* a threshold test that leaves exactly 70% unstripped
BelowThresholdInclusive(matches, n) == matches * 100 <= 70 * n

\* matches / max(1, len(non_empty)) < 0.70, n > 0
BelowThreshold(matches, n) == matches * 100 < 70 * n

_strip_line_number_prefixes(text) ==
    LET non_empty == NonEmptyLines(text)
        matches == Len(SelectSeq(non_empty, LineMatches))
    IN  IF non_empty = <<>> THEN text
        ELSE IF BelowThreshold(matches, Len(non_empty)) THEN text
        ELSE SubLineNumbers(text, 1)

\* the texts given to _strip_preamble
PreambleTexts == UNION {[1..k -> Chars \cup {"M"}] : k \in 0..MaxText}

\* the lines of the texts given to _strip_line_number_prefixes: a numbered
\* line, a plain line, an empty line, a blank line and a line whose number
\* has one digit too many
LineKinds ==
    {<<"1", ":", " ", "a">>, <<"a">>, <<>>, <<" ">>,
     [k \in 1..(MaxDigits + 1) |-> "1"] \o <<":", " ", "a">>}

\* the texts given to _strip_line_number_prefixes: some lines of any kind,
\* then np numbered lines, then nq plain lines, joined by "\n"
LineNumberTexts ==
    {JoinWith(<<"\n">>, head \o [k \in 1..np |-> <<"1", ":", " ", "a">>]
                              \o [k \in 1..nq |-> <<"a">>]) :
        head \in UNION {[1..h -> LineKinds] : h \in 0..MaxHead},
        np \in 0..MaxNumbered, nq \in 0..MaxPlain}

StripPreamble ==
    /\ cleanup.fn = "_strip_preamble" /\ cleanup.phase = "called"
    /\ cleanup' = [cleanup EXCEPT !.phase = "done",
                                   !.output = _strip_preamble(cleanup.input)]
    /\ UNCHANGED <<screenVars, call, storeVars>>

StripLineNumberPrefixes ==
    /\ cleanup.fn = "_strip_line_number_prefixes" /\ cleanup.phase = "called"
    /\ cleanup' = [cleanup EXCEPT !.phase = "done",
                                   !.output = _strip_line_number_prefixes(cleanup.input)]
    /\ UNCHANGED <<screenVars, call, storeVars>>

InitCleanup ==
    /\ InitScreen
    /\ StoreUnused
    /\ pdfPages = 1
    /\ ocrOracle = [i \in 0..(MaxPages - 1) |-> "unset"]
    /\ call = NoCall
    /\ cleanup \in
          {[NoCleanup EXCEPT !.fn = "_strip_preamble", !.input = t, !.phase = "called"] :
              t \in PreambleTexts}
          \cup {[NoCleanup EXCEPT !.fn = "_strip_line_number_prefixes", !.input = t,
                                  !.phase = "called"] : t \in LineNumberTexts}

NextCleanup == StripPreamble \/ StripLineNumberPrefixes

SpecCleanup == InitCleanup /\ [][NextCleanup]_vars

(***************************************************************************)
(* _parse_opencode_json: the lines of the child's stdout.  A line is given *)
(* by what json.loads and the event's fields make of it; "A" stands for an *)
(* upper-case letter.                                                      *)
(***************************************************************************)
\* the pattern \d+#[A-Z]{2}\| tried at position p: the position after the
\* match, 0 when there is none
IdMatchEnd(text, p) ==
    LET c == SkipWhile(text, p, Digits)
    IN  IF /\ c > p /\ c + 3 <= Len(text)
           /\ text[c] = "#" /\ text[c + 1] = "A" /\ text[c + 2] = "A"
           /\ text[c + 3] = "|"
        THEN c + 4 ELSE 0

\* _LINE_ID_RE.sub("", text) from position p on (re.MULTILINE)
RECURSIVE _strip_line_ids_from(_, _)
_strip_line_ids_from(text, p) ==
    IF p > Len(text) THEN <<>>
    ELSE IF (p = 1 \/ text[p - 1] = "\n") /\ IdMatchEnd(text, p) # 0
         THEN _strip_line_ids_from(text, IdMatchEnd(text, p))
         ELSE <<text[p]>> \o _strip_line_ids_from(text, p + 1)

_strip_line_ids(text) == _strip_line_ids_from(text, 1)

\* the text fragments an event carries under part.text
Fragments ==
    {<<"a">>, <<"\n">>, <<"M", "\n", "\n">>, <<"1", ":", " ", "a">>,
     <<"1", "#", "A", "A", "|">>}

\* the lines of the child's stdout: blank; not JSON; JSON that is no object
\* (a number, a string, null, a list); an event of another type; a text
\* event with a fragment, with the fragment "", without "part", and with
\* "part" null
OutputLines ==
    {[kind |-> k, text |-> <<>>] :
        k \in {"blank", "not_json", "not_object", "text_empty", "text_no_part",
               "text_null_part"}}
        \cup {[kind |-> "other", text |-> <<"a">>]}
        \cup {[kind |-> "text", text |-> t] : t \in Fragments}

\* the for loop of _parse_opencode_json from line k on: the parts appended,
\* or "raised" when event.get or .get("text") is called on what has no get
RECURSIVE CollectParts(_, _, _)
CollectParts(lines, k, parts) ==
    IF k > Len(lines) THEN parts
    ELSE IF lines[k].kind \in {"not_object", "text_null_part"} THEN "raised"
    ELSE IF lines[k].kind = "text"
         THEN CollectParts(lines, k + 1, Append(parts, lines[k].text))
         ELSE CollectParts(lines, k + 1, parts)

\* _parse_opencode_json: the loop, then the three cleanup stages
_parse_opencode_json(c) ==
    LET parts == CollectParts(c.input, 1, <<>>)
    IN  IF parts = "raised"
        THEN [c EXCEPT !.phase = "raised"]
        ELSE [c EXCEPT !.phase = "done",
                       !.output = _strip_line_number_prefixes(
                                      _strip_line_ids(
                                          _strip_preamble(JoinWith(<<>>, parts))))]

ParseOpenCodeJson ==
    /\ cleanup.fn = "_parse_opencode_json" /\ cleanup.phase = "called"
    /\ cleanup' = _parse_opencode_json(cleanup)
    /\ UNCHANGED <<screenVars, call, storeVars>>

InitParse ==
    /\ InitScreen
    /\ StoreUnused
    /\ pdfPages = 1
    /\ ocrOracle = [i \in 0..(MaxPages - 1) |-> "unset"]
    /\ call = NoCall
    /\ cleanup \in
          {[NoCleanup EXCEPT !.fn = "_parse_opencode_json", !.input = lines,
                             !.phase = "called"] :
              lines \in UNION {[1..n -> OutputLines] : n \in 0..MaxEvents}}

SpecParse == InitParse /\ [][ParseOpenCodeJson]_vars

(***************************************************************************)
(* The output directory holding two documents (src/projects/manager.py)    *)
(***************************************************************************)
MaxOps == 3

\* names typed in the new-project dialog
RawNames == {<<"a">>, <<" ", "a", ".">>, <<"/">>, <<"a", " ", " ", "a">>}
\* re.sub(r"\s+", "_", safe), from position k on
RECURSIVE CollapseWhitespace(_, _)
CollapseWhitespace(t, k) ==
    IF k > Len(t) THEN <<>>
    ELSE IF t[k] \in Whitespace
         THEN <<"_">> \o CollapseWhitespace(t, SkipWhile(t, k, Whitespace))
         ELSE <<t[k]>> \o CollapseWhitespace(t, k + 1)

\* ProjectManager._sanitise_name; "/" stands for the class
\* [<>:"/\\|?*\x00-\x1f], StripDots is safe.strip("._")
_sanitise_name(name) ==
    LET stripped == strip(name)
        replaced == [k \in 1..Len(stripped) |->
                        IF stripped[k] = "/" THEN "_" ELSE stripped[k]]
        safe     == CollapseWhitespace(replaced, 1)
        first    == SkipWhile(safe, 1, {".", "_"})
        rev      == [k \in 1..Len(safe) |-> safe[Len(safe) + 1 - k]]
        last     == Len(safe) + 1 - SkipWhile(rev, 1, {".", "_"})
        StripDots == SubSeq(safe, first, last)
    IN  IF StripDots = <<>> THEN <<"project">> ELSE StripDots

\* Project.folder and the paths below it, relative to the output directory
folder_shared(p) == <<"project">>
folder(p) == p.name
meta_path(p) == <<folder(p), <<"project.json", 0>>>>
ocr_path(p) == <<folder(p), <<"ocr.txt", 0>>>>
translation_path(p) == <<folder(p), <<"translation.txt", 0>>>>
ocr_pages_dir(p) == <<folder(p), "pages">>
translation_pages_dir(p) == <<folder(p), "translation_pages">>
\* dir / f"page_{page_index:04d}.txt"
PageFile(dir, page_index) == <<dir[1], <<dir[2], page_index>>>>

Paths ==
    {_sanitise_name(n) : n \in RawNames} \X
    ({<<"project.json", 0>>, <<"ocr.txt", 0>>, <<"translation.txt", 0>>}
     \cup ({"pages", "translation_pages"} \X (0..(MaxPages - 1))))

\* Path.exists() of a directory: it holds a file
DirExists(f, name) == \E path \in DOMAIN f : path[1] = name /\ f[path] # NoFile

\* Project.save: the folder is made, project.json is rewritten
Project_save(f, p) ==
    [f EXCEPT ![meta_path(p)] = << <<p.status, p.ocr_completed_pages>> >>]

\* Project.save_ocr_page; the variant empties the directory first
Project_save_ocr_page_alone(f, p, page_index, text) ==
    [path \in DOMAIN f |->
        IF path = PageFile(ocr_pages_dir(p), page_index) THEN text
        ELSE IF path[1] = folder(p) /\ path[2][1] = "pages" THEN NoFile
        ELSE f[path]]
Project_save_ocr_page(f, p, page_index, text) ==
    [f EXCEPT ![PageFile(ocr_pages_dir(p), page_index)] = text]

\* Project.save_translation_page
Project_save_translation_page(f, p, page_index, text) ==
    [f EXCEPT ![PageFile(translation_pages_dir(p), page_index)] = text]

\* Project.load_ocr_pages, Project.load_translation_pages: [] without the
\* directory, else the page files in the order of their names
Project_load_ocr_pages(f, p) ==
    LoadFrom([i \in 0..(MaxPages - 1) |-> f[PageFile(ocr_pages_dir(p), i)]], 0, MaxPages)
Project_load_translation_pages(f, p) ==
    LoadFrom([i \in 0..(MaxPages - 1) |-> f[PageFile(translation_pages_dir(p), i)]],
             0, MaxPages)

\* Project.save_ocr_result, Project.save_translation_result: write_text makes
\* no directory, it raises FileNotFoundError when the folder is gone
Project_save_ocr_result(f, p, text) ==
    IF DirExists(f, folder(p)) THEN [f EXCEPT ![ocr_path(p)] = text] ELSE f
Project_save_translation_result(f, p, text) ==
    IF DirExists(f, folder(p)) THEN [f EXCEPT ![translation_path(p)] = text] ELSE f

\* ProjectManager.delete_project: shutil.rmtree(project.folder)
ProjectManager_delete_project(f, p) ==
    [path \in DOMAIN f |-> IF path[1] = folder(p) THEN NoFile ELSE f[path]]

\* ProjectManager.create_project, the Project object it returns
ProjectManager_create_project(name) ==
    [name |-> _sanitise_name(name), status |-> PENDING, ocr_completed_pages |-> 0]

StoreOp(fn, d, file, text, result) ==
    [fn |-> fn, doc |-> d, file |-> file, text |-> text, result |-> result,
     again |-> (op.fn = fn /\ op.doc = d /\ op.file = file /\ op.text = text),
     n |-> op.n + 1]

\* the screen of document d changes status or counter and saves
SaveProject(d) ==
    /\ op.n < MaxOps
    /\ \E s \in {OCR_IN_PROGRESS, OCR_PAUSED}, n \in 0..1 :
          LET p == [docs[d] EXCEPT !.status = s, !.ocr_completed_pages = n]
          IN  /\ docs' = [docs EXCEPT ![d] = p]
              /\ fs' = Project_save(fs, p)
    /\ op' = StoreOp("save", d, <<"project.json", 0>>, <<>>, <<>>)
    /\ UNCHANGED <<screenVars, call, cleanup>>

SaveOcrPage(d) ==
    /\ op.n < MaxOps
    /\ \E i \in 0..(MaxPages - 1) : \E text \in {OcrText(i), OcrFailedText(i)} :
          /\ fs' = Project_save_ocr_page(fs, docs[d], i, text)
          /\ op' = StoreOp("save_ocr_page", d, <<"pages", i>>, text, <<>>)
    /\ UNCHANGED <<screenVars, call, cleanup, docs>>

SaveTranslationPage(d) ==
    /\ op.n < MaxOps
    /\ \E i \in 0..(MaxPages - 1) :
          LET text == TranslationOf(OcrText(i))
          IN  /\ fs' = Project_save_translation_page(fs, docs[d], i, text)
              /\ op' = StoreOp("save_translation_page", d,
                               <<"translation_pages", i>>, text, <<>>)
    /\ UNCHANGED <<screenVars, call, cleanup, docs>>

LoadOcrPages(d) ==
    /\ op.n < MaxOps
    /\ op' = StoreOp("load_ocr_pages", d, <<"pages", 0>>, <<>>,
                     Project_load_ocr_pages(fs, docs[d]))
    /\ UNCHANGED <<screenVars, call, cleanup, docs, fs>>

LoadTranslationPages(d) ==
    /\ op.n < MaxOps
    /\ op' = StoreOp("load_translation_pages", d, <<"translation_pages", 0>>, <<>>,
                     Project_load_translation_pages(fs, docs[d]))
    /\ UNCHANGED <<screenVars, call, cleanup, docs, fs>>

SaveOcrResult(d) ==
    /\ op.n < MaxOps
    /\ fs' = Project_save_ocr_result(fs, docs[d], OcrText(0))
    /\ op' = StoreOp("save_ocr_result", d, <<"ocr.txt", 0>>, OcrText(0), <<>>)
    /\ UNCHANGED <<screenVars, call, cleanup, docs>>

SaveTranslationResult(d) ==
    /\ op.n < MaxOps
    /\ fs' = Project_save_translation_result(fs, docs[d], TranslationOf(OcrText(0)))
    /\ op' = StoreOp("save_translation_result", d, <<"translation.txt", 0>>,
                     TranslationOf(OcrText(0)), <<>>)
    /\ UNCHANGED <<screenVars, call, cleanup, docs>>

DeleteProject(d) ==
    /\ op.n < MaxOps
    /\ fs' = ProjectManager_delete_project(fs, docs[d])
    /\ op' = StoreOp("delete_project", d, <<"project.json", 0>>, <<>>, <<>>)
    /\ UNCHANGED <<screenVars, call, cleanup, docs>>

\* two documents were created from typed names, each saved once
InitStore ==
    /\ InitScreen
    /\ pdfPages = 1
    /\ ocrOracle = [i \in 0..(MaxPages - 1) |-> "unset"]
    /\ call = NoCall
    /\ cleanup = NoCleanup
    /\ op = NoOp
    /\ docs \in {<<ProjectManager_create_project(n1), ProjectManager_create_project(n2)>> :
                    n1, n2 \in RawNames}
    /\ fs = Project_save(Project_save([path \in Paths |-> NoFile], docs[1]), docs[2])

NextStore ==
    \E d \in 1..2 :
        \/ SaveProject(d)
        \/ SaveOcrPage(d)
        \/ SaveTranslationPage(d)
        \/ LoadOcrPages(d)
        \/ LoadTranslationPages(d)
        \/ SaveOcrResult(d)
        \/ SaveTranslationResult(d)
        \/ DeleteProject(d)

SpecStore == InitStore /\ [][NextStore]_vars

(***************************************************************************)
(* One chained run on a new document, without pause and without a          *)
(* stage-fatal error, under a fair event loop                              *)
(***************************************************************************)
\* what the event loop, the executor and the timers do for coroutine r; a
\* step that ends in ERROR (no backend could be created) is left out
LiveStep(r) ==
    \/ ConvertReturn(r)
    \/ OcrPageReturn(r)
    \/ ChainSleepDone(r) /\ proj'.status # ERROR
    \/ ProviderReturn(r)
    \/ BackoffDone(r)
    \/ DelayDone(r)

NextLive ==
    \/ clicks = 0 /\ _on_run_ocr_translate
    \/ \E r \in RunIds : LiveStep(r)

\* asyncio runs every coroutine that is ready; executor calls, provider calls
\* and sleeps come back
SpecLive == Init /\ [][NextLive]_vars /\ \A r \in RunIds : WF_vars(LiveStep(r))

(***************************************************************************)
(* Properties                                                              *)
(***************************************************************************)
OcrArtifacts == {k \in 0..(MaxPages - 1) : pagesDir[k] # NoFile}
InPage(r) == runs[r].pc \in {"ocr", "translate", "backoff"}
Alive(r) == runs[r].pc \notin {"idle", "done"}

\* C1: ocr_completed_pages equals the number of page artifacts stored, and
\* the stored page indices are exactly 0 .. ocr_completed_pages - 1
C1_CompletedEqualsArtifacts ==
    /\ proj.ocr_completed_pages = Cardinality(OcrArtifacts)
    /\ OcrArtifacts = 0..(proj.ocr_completed_pages - 1)

\* C2: a run resumed after the pause took effect at a page boundary (every
\* earlier run finished or blocked between pages) never does the page-level
\* work of a page that was checkpointed before the resume
C2_ResumeNeverReprocesses ==
    \A r \in RunIds :
        (runs[r].resume /\ runs[r].resume_floor >= 0 /\ InPage(r))
            => runs[r].i >= runs[r].resume_floor

\* the pages an uninterrupted extraction collects, given the per-page results
UninterruptedPages == [k \in 1..pdfPages |-> OcrOutcomeText(k - 1, ocrOracle[k - 1])]

\* C3: whatever pauses and resumes preceded it, the joined extraction text
\* that is stored is the one an uninterrupted run produces
C3_ResumedExtractionSameOutput ==
    ocrFile # NoFile => ocrFile = _join_pages(UninterruptedPages)

C3_Witness ==
    \E r \in RunIds :
        /\ runs[r].pc = "done" /\ runs[r].stage = "ocr" /\ runs[r].resume
        /\ runs[r].outcome = "completed"
        /\ runs[r].start_page >= 1 /\ runs[r].start_page < pdfPages
        /\ proj.status = OCR_DONE /\ ocrFile # NoFile

\* the joined translations an uninterrupted run can store for these pages:
\* per page the translation or the failure sentinel, one entry per page
UninterruptedTranslations(pages) ==
    {JoinTranslated([k \in 1..Len(pages) |->
                        IF k \in S THEN TranslationFailedText(k, pages[k])
                                   ELSE TranslationOf(pages[k])]) :
        S \in SUBSET (1..Len(pages))}

\* C4: a translation resumed after n pages starts at index n, and the joined
\* translation of a finished document is that of an uninterrupted run
C4_ResumedTranslationSameOutput ==
    /\ \A r \in RunIds :
          (runs[r].stage = "tr" /\ runs[r].resume /\ runs[r].resume_floor >= 0)
              => runs[r].start_page = runs[r].resume_floor
    /\ proj.status = DONE => trFile \in UninterruptedTranslations(app.ocr_result_pages)

\* C5: under a paused status no page of that stage is in flight, and counters
\* and artifacts stay as they are while the status stays paused
C5_PausedIsQuiescent ==
    [][/\ proj.status = OCR_PAUSED =>
            ~\E r \in RunIds : runs[r].stage = "ocr" /\ InPage(r)
       /\ proj.status = TRANSLATION_PAUSED =>
            ~\E r \in RunIds : runs[r].stage = "tr" /\ InPage(r)
       /\ (can_resume(proj.status) /\ proj.status' = proj.status) =>
            /\ proj.ocr_completed_pages' = proj.ocr_completed_pages
            /\ proj.translation_completed_pages' = proj.translation_completed_pages
            /\ pagesDir' = pagesDir
            /\ trFile' = trFile]_vars

\* run r begins the page-level work of a page in this step
StartsPage(r) ==
    /\ runs'[r].pc \in {"ocr", "translate"}
    /\ \/ runs[r].pc \notin {"ocr", "translate", "backoff"}
       \/ runs'[r].i # runs[r].i
       \/ runs'[r].stage # runs[r].stage

\* C6: a run that was active when a pause was requested never starts
\* another page
C6_PausedRunStops ==
    [][\A r \in RunIds : runs[r].pause_seen => ~StartsPage(r)]_vars

\* C7: at most one run loop is active (runs blocked at the pause point are
\* not counted), so no two pages are in flight together
C7_SingleRunLoop ==
    Cardinality({r \in RunIds : Alive(r) /\ runs[r].pc # "wait"}) <= 1

StatusEdges ==
    {<<PENDING, OCR_IN_PROGRESS>>, <<OCR_IN_PROGRESS, OCR_PAUSED>>,
     <<OCR_PAUSED, OCR_IN_PROGRESS>>, <<OCR_IN_PROGRESS, OCR_DONE>>,
     <<OCR_DONE, TRANSLATING>>, <<TRANSLATING, TRANSLATION_PAUSED>>,
     <<TRANSLATION_PAUSED, TRANSLATING>>, <<TRANSLATING, DONE>>,
     <<OCR_IN_PROGRESS, ERROR>>, <<TRANSLATING, ERROR>>}

\* C8: the status only ever changes along an edge of the status machine
C8_StatusFollowsEdges ==
    [][proj.status' # proj.status => <<proj.status, proj.status'>> \in StatusEdges]_vars

\* C9: once the status is Failed it stays Failed
C9_FailedIsTerminal ==
    [][proj.status = ERROR => proj.status' = ERROR]_vars

\* C10: per page at most 3 provider calls; no wait before the first call,
\* 1 s before the second, 2 s before the third, none after the third
\* failure; fail, fail, success records the returned text
C10_RetryPolicy ==
    \A r \in RunIds :
        /\ Len(runs[r].outs) <= 3
        /\ Len(runs[r].waits) <= 2
        /\ runs[r].pc = "translate" =>
              /\ Len(runs[r].outs) = runs[r].attempt
              /\ \A k \in 1..Len(runs[r].outs) : runs[r].outs[k] = "raise"
              /\ runs[r].waits = CASE runs[r].attempt = 0 -> <<>>
                                   [] runs[r].attempt = 1 -> <<1>>
                                   [] OTHER -> <<1, 2>>
        /\ runs[r].pc = "backoff" =>
              /\ Len(runs[r].outs) = Len(runs[r].waits)
              /\ runs[r].waits \in {<<1>>, <<1, 2>>}
        /\ (runs[r].pc = "delay" /\ runs[r].outs = <<"raise", "raise", "ok">>) =>
              /\ runs[r].waits = <<1, 2>>
              /\ runs[r].translated_parts[Len(runs[r].translated_parts)]
                    = TranslationOf(runs[r].pages_text[runs[r].i + 1])

C10_Witness ==
    \E r \in RunIds :
        /\ runs[r].pc = "delay"
        /\ runs[r].outs = <<"raise", "raise", "ok">>
        /\ runs[r].waits = <<1, 2>>

\* the parts of run r once the failure sentinel of its current page is added
WithSentinel(r) ==
    Append(runs[r].translated_parts,
           TranslationFailedText(runs[r].i + 1, runs[r].pages_text[runs[r].i + 1]))

\* the parts of run r once the translation of its current page is added
WithTranslation(r) ==
    Append(runs[r].translated_parts, TranslationOf(runs[r].pages_text[runs[r].i + 1]))

\* C11: when the third provider call for a page fails too, the run neither
\* raises nor sets the status to error: it appends the failure marker
\* followed by the original page text, writes the joined text, counts the
\* page and goes on (inter-page delay, then the next page); leaving the third
\* attempt of the last page records one entry for it as well
C11_ExhaustedRetriesGiveSentinel ==
    [][\A r \in RunIds :
          (runs[r].pc = "translate" /\ runs[r].attempt = LastRetry) =>
              /\ runs'[r].outs = Append(runs[r].outs, "raise") =>
                    /\ runs'[r].pc = "delay"
                    /\ runs'[r].i = runs[r].i
                    /\ runs'[r].translated_parts = WithSentinel(r)
                    /\ trFile' = JoinTranslated(WithSentinel(r))
                    /\ proj'.translation_completed_pages = Len(WithSentinel(r))
                    /\ meta'.translation_completed_pages = Len(WithSentinel(r))
                    /\ proj'.status = proj.status
                    /\ proj'.error_message = proj.error_message
              /\ (runs'[r].pc = "done" /\ runs'[r].outcome # "error") =>
                    /\ trFile' \in {JoinTranslated(WithSentinel(r)),
                                    JoinTranslated(WithTranslation(r))}
                    /\ proj'.translation_completed_pages
                          \in {Len(WithSentinel(r)), runs[r].total}
                    /\ proj'.status \in {proj.status, DONE}]_vars

C11_Witness ==
    \E r \in RunIds :
        /\ runs[r].pc = "delay"
        /\ runs[r].outs = <<"raise", "raise", "raise">>
        /\ runs[r].translated_parts[Len(runs[r].translated_parts)]
              = TranslationFailedText(runs[r].i + 1, runs[r].pages_text[runs[r].i + 1])
        /\ proj.status = TRANSLATING
        /\ proj.translation_completed_pages = Len(runs[r].translated_parts)

\* run r ends the page-level work of its current extraction page in this step
EndsOcrPage(r) ==
    /\ runs[r].pc = "ocr"
    /\ runs'[r].pc # "idle"
    /\ runs'[r].pc # "ocr" \/ runs'[r].i # runs[r].i

\* C12: when the extraction of a page raises, the stage goes on: the marker
\* text is stored as that page's file, the page is counted, the status is
\* not error, and a run no pause was requested for continues with the next
\* page or, after the last page, ends in ocr_done with completed = total
C12_PageFailureDoesNotAbort ==
    [][\A r \in RunIds :
          (EndsOcrPage(r) /\ ocrOracle'[runs[r].i] = "fail"
                          /\ runs'[r].outcome # "error") =>
              /\ pagesDir'[runs[r].i] = OcrFailedText(runs[r].i)
              /\ proj'.ocr_completed_pages
                    \in {Len(runs[r].pages_text) + 1, runs[r].total}
              /\ meta'.ocr_completed_pages = proj'.ocr_completed_pages
              /\ proj'.status \in {proj.status, OCR_DONE}
              /\ ~runs[r].pause_seen =>
                    IF runs[r].i + 1 < runs[r].total
                    THEN /\ runs'[r].pc = "ocr"
                         /\ runs'[r].i = runs[r].i + 1
                         /\ proj'.ocr_completed_pages = Len(runs[r].pages_text) + 1
                    ELSE /\ proj'.status = OCR_DONE
                         /\ meta'.status = OCR_DONE
                         /\ proj'.ocr_completed_pages = runs[r].total
                         /\ ocrFile' # NoFile]_vars

C12_Witness ==
    /\ pdfPages = 2
    /\ pagesDir[0] = OcrFailedText(0)
    /\ pagesDir[1] # NoFile
    /\ proj.status = OCR_DONE
    /\ proj.ocr_completed_pages = 2 /\ proj.ocr_total_pages = 2
    /\ \A r \in RunIds : ~runs[r].pause_seen

C14_TranslationNeedsExtraction ==
    [][(/\ clicks' = clicks + 1
        /\ app.screen = "open"
        /\ proj.status \in {OCR_DONE, TRANSLATION_PAUSED}
        /\ ~app.has_ocr_result
        /\ app'.dialog # "none") =>
            /\ app'.dialog = "no_ocr_result"
            /\ proj' = proj /\ meta' = meta
            /\ pagesDir' = pagesDir /\ ocrFile' = ocrFile
            /\ trFile' = trFile /\ trPagesDir' = trPagesDir
            /\ app'.pause_event = app.pause_event
            /\ app'.cancel_requested = app.cancel_requested
            /\ runs' = runs]_vars

C14_Witness ==
    /\ app.dialog = "no_ocr_result"
    /\ ~app.has_ocr_result
    /\ proj.status = OCR_DONE /\ meta.status = OCR_DONE
    /\ ocrFile = EmptyText
    /\ \A r \in RunIds : Free(r)

\* C16: for both stages, in memory and in project.json, once the total is
\* known (non-zero) the completed counter is at most the total
C16_CompletedAtMostTotal ==
    /\ proj.ocr_total_pages # 0 => proj.ocr_completed_pages <= proj.ocr_total_pages
    /\ meta.ocr_total_pages # 0 => meta.ocr_completed_pages <= meta.ocr_total_pages
    /\ proj.translation_total_pages # 0 =>
          proj.translation_completed_pages <= proj.translation_total_pages
    /\ meta.translation_total_pages # 0 =>
          meta.translation_completed_pages <= meta.translation_total_pages

C16_Witness ==
    /\ proj.status = DONE
    /\ proj.ocr_completed_pages = 2 /\ proj.ocr_total_pages = 2
    /\ proj.translation_completed_pages = 2 /\ proj.translation_total_pages = 2
    /\ \E r \in RunIds : runs[r].stage = "tr" /\ runs[r].resume /\ runs[r].outcome = "completed"

\* C17: a stage's total is assigned when its input is paginated (the PDF
\* converted, the OCR pages taken) and, once non-zero, no later run, resumed
\* or repeated, gives it another value, in memory or in project.json
C17_TotalNeverChanges ==
    [][/\ proj.ocr_total_pages # 0 => proj'.ocr_total_pages = proj.ocr_total_pages
       /\ meta.ocr_total_pages # 0 => meta'.ocr_total_pages = meta.ocr_total_pages
       /\ proj.translation_total_pages # 0 =>
             proj'.translation_total_pages = proj.translation_total_pages
       /\ meta.translation_total_pages # 0 =>
             meta'.translation_total_pages = meta.translation_total_pages
       /\ proj'.ocr_total_pages # proj.ocr_total_pages =>
             /\ \E r \in RunIds : runs[r].pc = "convert"
             /\ proj'.ocr_total_pages = pdfPages
       /\ proj'.translation_total_pages # proj.translation_total_pages =>
             proj'.translation_total_pages = Len(app.ocr_result_pages)]_vars

C17_Witness ==
    \E r \in RunIds :
        /\ runs[r].stage = "ocr" /\ runs[r].resume /\ runs[r].pc = "ocr"
        /\ runs[r].start_page >= 1
        /\ runs[r].total = proj.ocr_total_pages
        /\ proj.ocr_total_pages = pdfPages

\* the page results translation.txt holds: every part, translation or
\* sentinel, has exactly one token of the provider or of the failure marker
TranslatedEntries(text) ==
    IF text = NoFile THEN 0
    ELSE Cardinality({k \in 1..Len(text) :
                         text[k][1] \in {"tr_ocr", "tr_ocr_failed", "tr_failed"}})

\* C18: what is stored at any instant, a crash inside a checkpoint included:
\* project.json never counts an extraction page whose page file is not
\* stored, nor more translated pages than translation.txt holds results
C18_CounterWithinArtifacts ==
    /\ \A k \in 0..(meta.ocr_completed_pages - 1) : k \in OcrArtifacts
    /\ meta.translation_completed_pages <= TranslatedEntries(trFile)

\* C19: when the project is opened after the process ended during a stage,
\* whatever status was stored, the button that runs that stage is enabled,
\* so that the stage can be run again from the stored pages
C19_RestartedStageResumable ==
    (app.screen = "open" /\ \A r \in RunIds : Free(r)) =>
        /\ meta.status \in {OCR_IN_PROGRESS, OCR_PAUSED} => ~app.btn_ocr_disabled
        /\ meta.status \in {TRANSLATING, TRANSLATION_PAUSED} =>
              ~app.btn_ocr_translate_disabled

\* the per-page translation files that exist
TranslatedArtifacts == {k \in 0..(MaxPages - 1) : trPagesDir[k] # NoFile}

\* how many of them are present contiguously from index 0
ContiguousFromZero(S) ==
    CHOOSE n \in 0..MaxPages :
        /\ \A k \in 0..(n - 1) : k \in S
        /\ n \notin S

\* C20: translation_completed_pages equals the number of per-page
\* translation files present contiguously from page index 0
C20_TranslatedPagesCheckpointed ==
    proj.translation_completed_pages = ContiguousFromZero(TranslatedArtifacts)

\* C15: neither backend's translate returns a result whose text is empty:
\* missing, empty or whitespace-only output makes it raise
C15_TranslateNeverReturnsEmpty ==
    call.phase = "returned" => call.result # <<>>

\* the page files of indices 0 .. n-1 once the step is taken, in index order
PageArtifactsAfter(n) == LoadFrom(pagesDir', 0, n)

\* C21: every extraction checkpoint (a step that stores a new value of
\* ocr_completed_pages without failing) leaves ocr.txt equal to the join of
\* the page files of the indices below ocr_completed_pages
C21_JoinedFollowsCheckpoints ==
    [][(/\ meta'.ocr_completed_pages # meta.ocr_completed_pages
        /\ meta'.status # ERROR) =>
            ocrFile' = _join_pages(PageArtifactsAfter(meta'.ocr_completed_pages))]_vars

\* the extraction stage is complete in memory and in what is stored
ExtractionComplete ==
    /\ proj.ocr_completed_pages = proj.ocr_total_pages
    /\ meta.ocr_completed_pages = meta.ocr_total_pages
    /\ proj.ocr_total_pages = pdfPages
    /\ \A k \in 0..(proj.ocr_total_pages - 1) : k \in OcrArtifacts
    /\ ocrFile = _join_pages(LoadFrom(pagesDir, 0, proj.ocr_total_pages))

\* run r leaves its extraction loop in this step and finishes the stage
CompletesExtraction(r) ==
    /\ runs[r].stage = "ocr" /\ Alive(r)
    /\ runs[r].pc # "chain_sleep"
    /\ \/ runs'[r].pc = "chain_sleep"
       \/ runs'[r].pc = "done" /\ runs'[r].outcome = "completed"
       \/ runs'[r].stage = "tr" /\ runs'[r].pc # "idle"

\* C22: under ocr_done the completed counter equals the total, every page
\* index below the total has its page file and ocr.txt is the join of those
\* files in index order; and the status becomes ocr_done only in a step where
\* a run no pause was requested for leaves its loop after the last page
C22_ExtractionDoneIsComplete ==
    [][/\ proj'.status = OCR_DONE => ExtractionComplete'
       /\ (proj.status # OCR_DONE /\ proj'.status = OCR_DONE) =>
             \E r \in RunIds : CompletesExtraction(r) /\ ~runs[r].pause_seen]_vars

\* the extracted pages of the document, in page order
ExtractedPages == LoadFrom(pagesDir, 0, pdfPages)

\* C23: under done, in memory and in project.json, the translated counter
\* equals the translation total and the number of extracted pages, and
\* translation.txt holds one entry per extracted page, in page order, each
\* the page's translation or its failure sentinel
C23_DoneIsComplete ==
    proj.status = DONE =>
        /\ proj.translation_completed_pages = proj.translation_total_pages
        /\ proj.translation_total_pages = Len(ExtractedPages)
        /\ Len(ExtractedPages) = pdfPages
        /\ meta.translation_completed_pages = proj.translation_completed_pages
        /\ trFile \in UninterruptedTranslations(ExtractedPages)

\* nothing of the document is stored
NothingStored ==
    /\ meta = NoProjectJson
    /\ ocrFile = NoFile /\ trFile = NoFile
    /\ \A k \in 0..(MaxPages - 1) : pagesDir[k] = NoFile /\ trPagesDir[k] = NoFile

\* C24: once the project was removed, project.json and every artifact of it
\* are gone and stay gone, whatever the coroutines started before do
C24_RemovedStaysRemoved ==
    app.screen = "removed" => NothingStored

\* run r, for which a pause was requested, takes a step in this one, and the
\* step is neither an outer error nor the end of the process
PausedRunSteps(r) ==
    /\ runs[r].pause_seen
    /\ runs'[r] # runs[r]
    /\ runs'[r].outcome # "error"
    /\ app'.screen # "closed"

\* the extraction checkpoint of the page run r has in flight is made
OcrPageRecorded(r) ==
    /\ pagesDir'[runs[r].i] = OcrOutcomeText(runs[r].i, ocrOracle'[runs[r].i])
    /\ proj'.ocr_completed_pages = Len(runs[r].pages_text) + 1
    /\ meta'.ocr_completed_pages = Len(runs[r].pages_text) + 1
    /\ Alive(r)' => /\ runs'[r].pages_text = Append(runs[r].pages_text, pagesDir'[runs[r].i])
                    /\ runs'[r].i = runs[r].i + 1

\* the translation checkpoint of the page run r has in flight is made with parts
TrPageRecorded(r, parts) ==
    /\ trFile' = JoinTranslated(parts)
    /\ meta'.translation_completed_pages = Len(parts)
    /\ proj'.translation_completed_pages \in {Len(parts), runs[r].total}
    /\ Alive(r)' => runs'[r].translated_parts = parts

\* the page of run r stays in flight: nothing of it is recorded yet
TrPageGoesOn(r) ==
    /\ runs'[r].pc \in {"translate", "backoff"}
    /\ runs'[r].i = runs[r].i
    /\ runs'[r].translated_parts = runs[r].translated_parts
    /\ IF runs[r].pc = "translate"
       THEN /\ runs'[r].pc = "backoff"
            /\ runs[r].attempt < LastRetry
            /\ runs'[r].outs = Append(runs[r].outs, "raise")
       ELSE /\ runs'[r].pc = "translate"
            /\ runs'[r].attempt = runs[r].attempt + 1
    /\ trFile' = trFile
    /\ meta'.translation_completed_pages = meta.translation_completed_pages

\* C25: a pause requested while a page is in flight does not abort the page:
\* the extraction of the page ends in its checkpoint (page file and counter
\* together), a translation goes through its attempts and backoff waits and
\* ends in its checkpoint (translation.txt and counter together), the
\* sentinel being recorded only for an empty answer or after the third
\* failure, and the inter-page delay changes nothing that is recorded
C25_PauseDoesNotAbortPage ==
    [][\A r \in RunIds :
          PausedRunSteps(r) =>
              /\ runs[r].pc = "ocr" => OcrPageRecorded(r)
              /\ runs[r].pc \in {"translate", "backoff"} =>
                    \/ TrPageGoesOn(r)
                    \/ TrPageRecorded(r, WithTranslation(r))
                    \/ /\ TrPageRecorded(r, WithSentinel(r))
                       /\ runs[r].pc = "translate"
                       /\ Alive(r)' =>
                             \/ runs'[r].outs = Append(runs[r].outs, "empty")
                             \/ runs'[r].outs = <<"raise", "raise", "raise">>
              /\ runs[r].pc = "delay" =>
                    /\ trFile' = trFile /\ meta' = meta
                    /\ pagesDir' = pagesDir]_vars

C25_Witness ==
    \E r \in RunIds :
        /\ runs[r].pc = "wait" /\ runs[r].stage = "ocr" /\ runs[r].pause_seen
        /\ ~runs[r].resume /\ runs[r].i = 1 /\ Len(runs[r].pages_text) = 1
        /\ \A q \in RunIds \ {r} : Free(q)
        /\ proj.status = OCR_PAUSED
        /\ proj.ocr_completed_pages = 1 /\ pagesDir[0] # NoFile

Statuses ==
    {PENDING, OCR_IN_PROGRESS, OCR_PAUSED, OCR_DONE, TRANSLATING,
     TRANSLATION_PAUSED, DONE, ERROR}

\* a run operation is started in slot r in this step
ClickStarts(r) == Free(r) /\ runs'[r].pc # "idle"

\* run r goes from its finished extraction on to _run_translation(resume=False)
ChainStarts(r) ==
    /\ runs[r].pc = "chain_sleep" /\ runs'[r].pc # "chain_sleep"
    /\ app'.screen = "open"

\* C26: a stage is started without resume only under pending or ocr_done,
\* with resume only under the paused status of that stage, and nothing is
\* started under ocr_in_progress, translating, done or error; can_start,
\* can_resume and can_pause hold for exactly {pending, ocr_done},
\* {ocr_paused, translation_paused} and {ocr_in_progress, translating}
C26_StartOnlyWhenAllowed ==
    [][/\ \A r \in RunIds :
            (ClickStarts(r) \/ ChainStarts(r)) =>
                /\ proj.status \notin {OCR_IN_PROGRESS, TRANSLATING, DONE, ERROR}
                /\ ~runs'[r].resume => proj.status \in {PENDING, OCR_DONE}
                /\ runs'[r].resume =>
                      \/ runs'[r].stage = "ocr" /\ proj.status = OCR_PAUSED
                      \/ runs'[r].stage = "tr" /\ proj.status = TRANSLATION_PAUSED
       /\ \A s \in Statuses :
            /\ can_start(s) <=> s \in {PENDING, OCR_DONE}
            /\ can_resume(s) <=> s \in {OCR_PAUSED, TRANSLATION_PAUSED}
            /\ can_pause(s) <=> s \in {OCR_IN_PROGRESS, TRANSLATING}]_vars

\* C27: when the child does not finish within the timeout, translate ends by
\* raising the timeout error, with the child killed and waited for; it
\* returns nothing and leaves no child running
C27_TimeoutKillsChild ==
    (call.reply.kind = "timeout" /\ call.phase \in {"returned", "raised"}) =>
        /\ call.phase = "raised"
        /\ call.error = "timeout"
        /\ call.child = "killed"

(***************************************************************************)
(* C28: preamble stripping                                                 *)
(***************************************************************************)
\* the block, surrounding whitespace aside, begins with the marker phrase
BeginsWithMarker(block) == strip(block) # <<>> /\ strip(block)[1] = "M"

\* the blocks of the text that are neither blank nor marker blocks
ContentBlocks(blocks) ==
    {i \in 1..Len(blocks) : strip(blocks[i]) # <<>> /\ ~BeginsWithMarker(blocks[i])}

\* the text from the first content block onward
FromFirstContent(blocks) ==
    LET first == CHOOSE i \in ContentBlocks(blocks) :
                     \A j \in ContentBlocks(blocks) : i <= j
    IN  JoinWith(<<"\n", "\n">>, SubSeq(blocks, first, Len(blocks)))

\* C28 as stated: the result of _strip_preamble is exactly the text from the
\* first block that is neither blank nor a marker block onward, and a text
\* in which no block begins with a marker phrase is returned unchanged.
C28_PreambleStrippedExactly ==
    (cleanup.fn = "_strip_preamble" /\ cleanup.phase = "done") =>
        LET blocks == SplitBlocks(cleanup.input, 1, <<>>)
        IN  /\ ContentBlocks(blocks) # {} => cleanup.output = FromFirstContent(blocks)
            /\ (\A i \in 1..Len(blocks) : ~BeginsWithMarker(blocks[i]))
                   => cleanup.output = cleanup.input

\* C28 amended: the result of _strip_preamble is the text from the first
\* block that is neither blank nor a marker block onward, without its
\* leading and trailing whitespace; when there is no such block it is the
\* whole text without its leading and trailing whitespace; so a text in
\* which no block begins with a marker phrase is returned unchanged up to
\* its surrounding whitespace.
C28_PreambleStripped ==
    (cleanup.fn = "_strip_preamble" /\ cleanup.phase = "done") =>
        LET blocks == SplitBlocks(cleanup.input, 1, <<>>)
        IN  /\ cleanup.output =
                  IF ContentBlocks(blocks) # {}
                  THEN strip(FromFirstContent(blocks))
                  ELSE strip(cleanup.input)
            /\ (\A i \in 1..Len(blocks) : ~BeginsWithMarker(blocks[i]))
                   => cleanup.output = strip(cleanup.input)

\* a marker block, a blank line, then content with trailing whitespace:
\* the marker block is gone and so is the trailing whitespace
C28_Witness ==
    /\ cleanup.fn = "_strip_preamble" /\ cleanup.phase = "done"
    /\ cleanup.input = <<"M", "\n", "\n", "a", " ">>
    /\ cleanup.output = <<"a">>

(***************************************************************************)
(* C29: line-number stripping                                              *)
(***************************************************************************)
\* the line without its `N: ` prefix, if it has one
WithoutPrefix(ln) == IF LineMatches(ln) THEN SubSeq(ln, MatchEnd(ln, 1), Len(ln)) ELSE ln

\* the non-blank lines of the output are the non-blank lines of the input
\* without their prefixes
PrefixesStripped(input, output) ==
    LET lines == NonEmptyLines(input)
    IN  NonEmptyLines(output) = [k \in 1..Len(lines) |-> WithoutPrefix(lines[k])]

\* C29: with n non-blank lines of which m begin with an `N: ` prefix,
\* _strip_line_number_prefixes strips the prefixes if and only if n > 0 and
\* 10*m >= 7*n; otherwise (below 70%, or no non-blank line) it returns the
\* text unchanged.
C29_StripsFromSeventyPercent ==
    (cleanup.fn = "_strip_line_number_prefixes" /\ cleanup.phase = "done") =>
        LET lines == NonEmptyLines(cleanup.input)
            n == Len(lines)
            m == Cardinality({k \in 1..n : LineMatches(lines[k])})
        IN  IF n > 0 /\ 10 * m >= 7 * n
            THEN /\ PrefixesStripped(cleanup.input, cleanup.output)
                 /\ cleanup.output # cleanup.input
            ELSE cleanup.output = cleanup.input

\* ten non-blank lines of which exactly seven are numbered: stripped
C29_Witness ==
    /\ cleanup.fn = "_strip_line_number_prefixes" /\ cleanup.phase = "done"
    /\ Len(NonEmptyLines(cleanup.input)) = 10
    /\ Len(SelectSeq(NonEmptyLines(cleanup.input), LineMatches)) = 7
    /\ Len(NonEmptyLines(cleanup.output)) = 10
    /\ \A k \in 1..10 : NonEmptyLines(cleanup.output)[k] = <<"a">>

(***************************************************************************)
(* C30: the inter-page delay of the translation stage                      *)
(***************************************************************************)
\* run r makes the checkpoint of a page in this step
TrCheckpoints(r) ==
    /\ runs[r].stage = "tr" /\ runs[r].pc = "translate"
    /\ runs'[r].stage = "tr"
    /\ Len(runs'[r].translated_parts) = Len(runs[r].translated_parts) + 1

\* run r goes on to the next page in this step: it waits at the pause point
\* of that page or issues its first provider call
TrNextPage(r) ==
    /\ runs[r].stage = "tr" /\ runs'[r].stage = "tr"
    /\ runs'[r].i = runs[r].i + 1
    /\ runs'[r].pc \in {"wait", "translate"}

C33_SentinelOnlyAfterThreeFailures ==
    [][\A r \in RunIds :
          (TrCheckpoints(r) /\ Len(runs'[r].outs) = Len(runs[r].outs) + 1) =>
              LET out == runs'[r].outs[Len(runs'[r].outs)]
                  page_text == runs[r].pages_text[runs[r].i + 1]
                  recorded == runs'[r].translated_parts[Len(runs'[r].translated_parts)]
              IN  /\ out = "ok" => recorded = TranslationOf(page_text)
                  /\ out = "empty" => recorded = EmptyText
                  /\ recorded = TranslationFailedText(runs[r].i + 1, page_text)
                        => runs'[r].outs = <<"raise", "raise", "raise">>
      ]_vars

(***************************************************************************)
(* C34: chaining extraction into translation                               *)
(***************************************************************************)
\* C34: a run of _run_ocr goes on to the translation stage only when it was
\* started with the chain option, was never interrupted by a pause, has
\* completed all its pages and set the status to ocr_done, and then it
\* starts the stage with resume = False; a run that was interrupted by a
\* pause or that failed starts no translation.
C34_ChainOnlyAfterCompletion ==
    [][\A r \in RunIds :
          /\ (runs[r].stage = "ocr" /\ runs'[r].stage = "tr") =>
                /\ runs[r].pc = "chain_sleep"
                /\ runs[r].translate
                /\ ~runs[r].pause_seen
                /\ ~runs'[r].resume
          /\ (runs[r].pc # "chain_sleep" /\ runs'[r].pc = "chain_sleep") =>
                /\ runs[r].stage = "ocr" /\ runs[r].translate
                /\ ~runs[r].pause_seen
                /\ Len(runs'[r].pages_text) = runs[r].total
                /\ proj'.status = OCR_DONE /\ meta'.status = OCR_DONE
          /\ (runs[r].stage = "ocr" /\ runs[r].pc # "chain_sleep"
                 /\ runs'[r].pc = "done"
                 /\ runs'[r].outcome \in {"paused", "error"}) =>
                runs'[r].stage = "ocr"
      ]_vars

(***************************************************************************)
(* C36: progress is monotone                                               *)
(***************************************************************************)
\* a run that was started without resume, so that it does the stage over
\* from its first page, records a page in this step
RestartRecordsPage(stage) ==
    \E r \in RunIds :
        /\ runs[r].stage = stage /\ ~runs[r].resume /\ runs'[r].stage = stage
        /\ IF stage = "ocr"
           THEN Len(runs'[r].pages_text) = Len(runs[r].pages_text) + 1
           ELSE Len(runs'[r].translated_parts) = Len(runs[r].translated_parts) + 1

\* C36: for each stage the completed-page counter, in memory and in
\* project.json, never decreases from one state to the next through
\* checkpoints, pauses and resumes of the stage; only the checkpoint of a
\* run that does the stage over without resume may set it back.
C36_ProgressIsMonotone ==
    [][/\ \/ /\ proj'.ocr_completed_pages >= proj.ocr_completed_pages
             /\ meta'.ocr_completed_pages >= meta.ocr_completed_pages
          \/ RestartRecordsPage("ocr")
       /\ \/ /\ proj'.translation_completed_pages >= proj.translation_completed_pages
             /\ meta'.translation_completed_pages >= meta.translation_completed_pages
          \/ RestartRecordsPage("tr")
      ]_vars

(***************************************************************************)
(* C37: the two pause signals                                              *)
(***************************************************************************)
\* the pause event is cleared exactly when a stop is requested
SignalsAgree(a) == ~a.pause_event <=> a.cancel_requested

\* C37: in every state the pause event is cleared if and only if
\* _cancel_requested is true; a pause leaves the event cleared and the
\* request set, the start of a run leaves the event set and the request
\* unset, and no step changes one of the two without the other.
C37_PauseSignalsAgree ==
    /\ SignalsAgree(app)
    /\ [][/\ SignalsAgree(app')
          /\ (app'.pause_event # app.pause_event)
                <=> (app'.cancel_requested # app.cancel_requested)
          /\ (proj.status \in {OCR_IN_PROGRESS, TRANSLATING}
                 /\ proj'.status \in {OCR_PAUSED, TRANSLATION_PAUSED}) =>
                ~app'.pause_event /\ app'.cancel_requested
          /\ \A r \in RunIds :
                (ClickStarts(r) \/ (runs[r].stage = "ocr" /\ runs'[r].stage = "tr")) =>
                    app'.pause_event /\ ~app'.cancel_requested
         ]_vars

\* a run was paused and waits at its pause point: the event is cleared and
\* the stop is requested
C37_Witness ==
    /\ ~app.pause_event /\ app.cancel_requested
    /\ proj.status = OCR_PAUSED
    /\ \E r \in RunIds : runs[r].pc = "wait" /\ runs[r].pause_seen

(***************************************************************************)
(* C39: the temporary file of the subprocess provider                      *)
(***************************************************************************)
\* C39: when translate of the opencode backend has returned or raised, the
\* temporary file it created is removed, whatever the exit path; and when
\* the binary is not available no file is created.
C39_TempFileRemoved ==
    (call.backend = "opencode" /\ call.phase \in {"returned", "raised"}) =>
        /\ call.tmp # "exists"
        /\ call.reply.kind = "not_installed" => call.tmp = "none"

(***************************************************************************)
(* C31: parsing the output of the subprocess provider                      *)
(***************************************************************************)
\* the fragments of the text events among the lines, in arrival order
RECURSIVE TextFragments(_)
TextFragments(lines) ==
    IF lines = <<>> THEN <<>>
    ELSE (IF lines[1].kind = "text" THEN lines[1].text ELSE <<>>)
             \o TextFragments(Tail(lines))

\* C31: for every sequence of output lines _parse_opencode_json yields the
\* concatenation, in arrival order, of the part.text fragments of the text
\* events, all other lines contributing nothing, to which the preamble
\* strip, then the line-identifier strip, then the line-number strip are
\* applied.
C31_ParseConcatenatesTextEvents ==
    (cleanup.fn = "_parse_opencode_json" /\ cleanup.phase # "called") =>
        /\ cleanup.phase = "done"
        /\ cleanup.output =
              _strip_line_number_prefixes(
                  _strip_line_ids(_strip_preamble(TextFragments(cleanup.input))))

\* the page directory a page write or a page load of the last call is about
PageDirOf(o) == IF o.fn \in {"save_ocr_page", "load_ocr_pages"} THEN "pages"
                ELSE "translation_pages"
PageWrites == {"save_ocr_page", "save_translation_page"}
PageLoads == {"load_ocr_pages", "load_translation_pages"}
StageIsEmpty(name, dir) ==
    \A i \in 0..(MaxPages - 1) : fs[<<name, <<dir, i>>>>] = NoFile

\* C32: a page write to (stage, index) of a document stores the text at that
\* page artifact and changes no other file of the output directory (no other
\* page artifact, no joined artifact, nothing of the other stage, no
\* project.json); the same write made again right after leaves the output
\* directory as it is; a page load changes nothing and gives the empty
\* sequence when the stage holds no page artifact
C32_PageWritesAreLocal ==
    [][/\ op'.fn \in PageWrites /\ op' # op =>
            LET target == <<docs[op'.doc].name, <<PageDirOf(op'), op'.file[2]>>>>
            IN  /\ fs'[target] = op'.text
                /\ \A path \in DOMAIN fs : path # target => fs'[path] = fs[path]
                /\ docs' = docs
                /\ op'.again => fs' = fs
       /\ op'.fn \in PageLoads /\ op' # op =>
            /\ fs' = fs /\ docs' = docs
            /\ StageIsEmpty(docs[op'.doc].name, PageDirOf(op')) => op'.result = <<>>
      ]_vars

\* the same page write was made twice in a row, next to another page artifact
C32_Witness ==
    /\ op.fn = "save_ocr_page" /\ op.again /\ op.file[2] = 1
    /\ fs[<<docs[op.doc].name, <<"pages", 0>>>>] # NoFile
    /\ fs[<<docs[op.doc].name, <<"pages", 1>>>>] = op.text

\* a page load of a stage without page artifacts was made
C32_WitnessEmptyLoad ==
    /\ op.fn = "load_translation_pages" /\ op.result = <<>>
    /\ StageIsEmpty(docs[op.doc].name, "translation_pages")
    /\ ~StageIsEmpty(docs[op.doc].name, "pages")

\* C35: a step of one document (save of status or counter, page write, joined
\* write, load, delete) leaves the Project object and every file of a
\* document with another folder name as they are
C35_DocumentsAreIndependent ==
    [][\A d, e \in 1..2 :
          (op' # op /\ op'.doc = d /\ docs[e].name # docs[d].name) =>
              /\ docs'[e] = docs[e]
              /\ \A path \in DOMAIN fs : path[1] = docs[e].name => fs'[path] = fs[path]
      ]_vars

\* one document was deleted while the other keeps its record and a page
C35_Witness ==
    /\ op.fn = "delete_project" /\ op.doc = 1
    /\ docs[1].name # docs[2].name
    /\ ~DirExists(fs, docs[1].name)
    /\ fs[<<docs[2].name, <<"project.json", 0>>>>] # NoFile
    /\ fs[<<docs[2].name, <<"pages", 0>>>>] # NoFile

\* every coroutine has returned
AllReturned == \A r \in RunIds : runs[r].pc \in {"idle", "done"}

\* C38: after the click on "Extract + Translate" on a new document, with no
\* pause click and no stage-fatal error, no page gets more than 3 provider
\* calls, and the document reaches DONE with every coroutine returned,
\* whatever the pages give in extraction and in translation
C38_ChainedRunReachesDone ==
    /\ [](\A r \in RunIds : Len(runs[r].outs) <= 3 /\ runs[r].attempt < 3)
    /\ (clicks = 1) ~> (proj.status = DONE /\ AllReturned)

\* a chained run is over in DONE with a page whose extraction failed and a
\* page whose translation failed three times
C38_Witness ==
    /\ clicks = 1 /\ proj.status = DONE /\ AllReturned
    /\ \E i \in PageIdx : pagesDir[i] = OcrFailedText(i)
    /\ \E k \in 1..Len(trFile) : trFile[k][1] = "tr_failed"
    /\ \E k \in 1..Len(trFile) : trFile[k][1] = "tr_ocr"
====
